---- MODULE Spec2Model ----
(***************************************************************************)
(* Model of the SQRL test site identity/nut storage (TestSiteHandler.ts):  *)
(* the two in-memory NeDB tables, the ISQRLIdentityStorage handlers        *)
(* (query, ident, disable, enable, remove, nutIssuedToClientAsync) and the *)
(* /pollNut route.  Every handler is split at its storage await points, so *)
(* that requests of different processes interleave exactly where the       *)
(* Node.js event loop lets them interleave.  The pure URL functions        *)
(* (canonicalizeSqrlUrl, SqrlUrlFactory.create) are computed on text, one  *)
(* character at a time, and exercised by a specification of their own.     *)
(***************************************************************************)
EXTENDS Integers, Sequences, FiniteSets, TLC

(***************************************************************************)
(* Bounds and input sets                                                   *)
(***************************************************************************)
\* Cap on the number of documents in userTable (insert is guarded by it).
MaxUsers == 2
\* Cap on the length of sqrlPreviousIdentityPublicKeys (rotation is guarded).
MaxPrev == 2
\* The same cap where only ident requests are served, to follow one identity
\* through many rotations.
MaxRotations == 5
\* Cap on the number of generatePostBody calls made on one client.
MaxCalls == 4

\* Request-handling processes that may be in flight at the same time.
Procs == {"p1", "p2"}
\* The process used when requests are served strictly one after another.
SeqProcs == {"p1"}

\* Client identity public keys (base64url text in the code).
Keys == {"kA", "kB"}
\* JavaScript undefined / absent string.
NoKey == "undefined"
\* What a client presents with its identity key idk: the server unlock key
\* and server verify unlock key made for that identity, and the sqrlonly and
\* hardlock option flags it runs with.
ClientOptions(idk) ==
  IF idk = "kA"
  THEN [serverUnlockPublicKey |-> "sukA", serverVerifyUnlockPublicKey |-> "vukA",
        useSqrlIdentityOnly |-> TRUE, hardLockSqrlUse |-> FALSE]
  ELSE [serverUnlockPublicKey |-> "sukB", serverVerifyUnlockPublicKey |-> "vukB",
        useSqrlIdentityOnly |-> FALSE, hardLockSqrlUse |-> TRUE]

\* Nuts.  A nut issued for a later round trip carries an originalLoginNut,
\* which names the nut of the /login page the browser polls: a nut of
\* OriginalNuts, issued (if at all) without originalLoginNut.
Nuts == {"n1", "n2"}
OriginalNuts == {"n1"}
NoNut == "undefined"

\* NeDB document ids: random strings; candidates are returned in _id order.
Ids == 1..MaxUsers

VARIABLES userTable, nutTable, proc, call

vars == <<userTable, nutTable, proc, call>>

\* The library call under way outside the handlers (URL canonicalization and
\* URL creation are pure functions of their arguments): which function ran
\* last, what it was given, what it returned, and what its argument was made
\* from.  No call has been made while the handlers are exercised.
NoCall ==
  [op |-> "none", input |-> <<>>, made |-> "given", output |-> <<>>,
   origin |-> [kind |-> "none"]]

(***************************************************************************)
(* TIF flags                                                               *)
(***************************************************************************)
CurrentIDMatch == 1
PreviousIDMatch == 2
CommandFailed == 64
ClientFailure == 128

RECURSIVE BitAnd(_, _)
BitAnd(a, b) ==
  IF a = 0 \/ b = 0 THEN 0
  ELSE (IF a % 2 = 1 /\ b % 2 = 1 THEN 1 ELSE 0) + 2 * BitAnd(a \div 2, b \div 2)

RECURSIVE BitOr(_, _)
BitOr(a, b) ==
  IF a = 0 THEN b
  ELSE IF b = 0 THEN a
  ELSE (IF a % 2 = 1 \/ b % 2 = 1 THEN 1 ELSE 0) + 2 * BitOr(a \div 2, b \div 2)

(***************************************************************************)
(* Documents                                                               *)
(***************************************************************************)
\* The absent user document (null from findOne).
NoDoc ==
  [id |-> 0,
   sqrlPrimaryIdentityPublicKey |-> NoKey,
   sqrlPreviousIdentityPublicKeys |-> <<>>,
   sqrlServerUnlockPublicKey |-> NoKey,
   sqrlServerVerifyUnlockPublicKey |-> NoKey,
   sqrlUseSqrlIdentityOnly |-> FALSE,
   sqrlHardLockSqrlUse |-> FALSE]

\* newFromClientRequestInfo with the two unlock keys stored in each other's
\* field.
NewFromClientRequestInfoSwapped(clientRequestInfo) ==
  [id |-> 0,
   sqrlPrimaryIdentityPublicKey |-> clientRequestInfo.primaryIdentityPublicKey,
   sqrlPreviousIdentityPublicKeys |->
     IF clientRequestInfo.previousIdentityPublicKey # NoKey
     THEN <<clientRequestInfo.previousIdentityPublicKey>>
     ELSE <<>>,
   sqrlServerUnlockPublicKey |-> clientRequestInfo.serverVerifyUnlockPublicKey,
   sqrlServerVerifyUnlockPublicKey |-> clientRequestInfo.serverUnlockPublicKey,
   sqrlUseSqrlIdentityOnly |-> clientRequestInfo.useSqrlIdentityOnly,
   sqrlHardLockSqrlUse |-> clientRequestInfo.hardLockSqrlUse]

\* newFromClientRequestInfo leaving the previous-key list empty.
NewFromClientRequestInfoNoPrevious(clientRequestInfo) ==
  [id |-> 0,
   sqrlPrimaryIdentityPublicKey |-> clientRequestInfo.primaryIdentityPublicKey,
   sqrlPreviousIdentityPublicKeys |-> <<>>,
   sqrlServerUnlockPublicKey |-> clientRequestInfo.serverUnlockPublicKey,
   sqrlServerVerifyUnlockPublicKey |-> clientRequestInfo.serverVerifyUnlockPublicKey,
   sqrlUseSqrlIdentityOnly |-> clientRequestInfo.useSqrlIdentityOnly,
   sqrlHardLockSqrlUse |-> clientRequestInfo.hardLockSqrlUse]

\* UserDBRecord.newFromClientRequestInfo, before NeDB assigns the _id.
NewFromClientRequestInfo(clientRequestInfo) ==
  [id |-> 0,
   sqrlPrimaryIdentityPublicKey |-> clientRequestInfo.primaryIdentityPublicKey,
   sqrlPreviousIdentityPublicKeys |->
     IF clientRequestInfo.previousIdentityPublicKey # NoKey
     THEN <<clientRequestInfo.previousIdentityPublicKey>>
     ELSE <<>>,
   sqrlServerUnlockPublicKey |-> clientRequestInfo.serverUnlockPublicKey,
   sqrlServerVerifyUnlockPublicKey |-> clientRequestInfo.serverVerifyUnlockPublicKey,
   sqrlUseSqrlIdentityOnly |-> clientRequestInfo.useSqrlIdentityOnly,
   sqrlHardLockSqrlUse |-> clientRequestInfo.hardLockSqrlUse]

\* The values authInfo.user takes: null, a user document, or (after
\* updateAsync, which resolves to the number of affected documents) a number.
NullValue == [kind |-> "null", doc |-> NoDoc, num |-> 0]
DocValue(d) == [kind |-> "doc", doc |-> d, num |-> 0]
NumValue(n) == [kind |-> "number", doc |-> NoDoc, num |-> n]

\* JavaScript truthiness of authInfo.user.
Truthy(v) == v.kind = "doc" \/ (v.kind = "number" /\ v.num # 0)

\* (<UserDBRecord> authInfo.user).sqrlPrimaryIdentityPublicKey: a property
\* read on a number yields undefined.
PrimaryKeyOf(v) ==
  IF v.kind = "doc" THEN v.doc.sqrlPrimaryIdentityPublicKey ELSE NoKey

\* new AuthCompletionInfo()
NewAuthCompletionInfo ==
  [user |-> NullValue, tifValues |-> 0, sessionUnlockKey |-> NoKey]

\* The absent nut record (null from findOne).
NoNutRecord ==
  [nut |-> NoNut, originalLoginNut |-> NoNut, loggedIn |-> FALSE,
   clientPrimaryIdentityPublicKey |-> NoKey]

\* new NutDBRecord(nut, url, originalLoginNut): loggedIn is not yet set
\* (falsy), no client key.
NutDBRecord(nut, originalLoginNut) ==
  [nut |-> nut, originalLoginNut |-> originalLoginNut, loggedIn |-> FALSE,
   clientPrimaryIdentityPublicKey |-> NoKey]

(***************************************************************************)
(* Requests                                                                *)
(***************************************************************************)
\* A signature of the POST body: ed25519.Sign(clientServer, private key).  It
\* verifies against the public key of the signing private key for as long as
\* the signed client and server strings are intact.
NoSignature == [signer |-> NoKey, intact |-> FALSE]
Sign(key) == [signer |-> key, intact |-> TRUE]

NoRequest ==
  [sqrlCommand |-> "none",
   primaryIdentityPublicKey |-> NoKey,
   previousIdentityPublicKey |-> NoKey,
   serverUnlockPublicKey |-> NoKey,
   serverVerifyUnlockPublicKey |-> NoKey,
   useSqrlIdentityOnly |-> FALSE,
   hardLockSqrlUse |-> FALSE,
   returnSessionUnlockKey |-> FALSE,
   ids |-> NoSignature,
   pids |-> NoSignature]

\* A request as the client makes it: ids signed with the private key of idk,
\* pids (present with pidk) with the private key of pidk.
Request(cmd, idk, pidk, options, suk) ==
  [sqrlCommand |-> cmd,
   primaryIdentityPublicKey |-> idk,
   previousIdentityPublicKey |-> pidk,
   serverUnlockPublicKey |-> options.serverUnlockPublicKey,
   serverVerifyUnlockPublicKey |-> options.serverVerifyUnlockPublicKey,
   useSqrlIdentityOnly |-> options.useSqrlIdentityOnly,
   hardLockSqrlUse |-> options.hardLockSqrlUse,
   returnSessionUnlockKey |-> suk,
   ids |-> Sign(idk),
   pids |-> IF pidk # NoKey THEN Sign(pidk) ELSE NoSignature]

\* The requests a client may send with command cmd: a client's previous
\* identity keys differ from its current one.
ClientRequestInfos(cmd) ==
  {r \in {Request(cmd, idk, pidk, ClientOptions(idk), suk) :
             idk \in Keys, pidk \in Keys \cup {NoKey}, suk \in BOOLEAN} :
     r.previousIdentityPublicKey # r.primaryIdentityPublicKey}

\* The requests the handlers are driven with: a field a handler never reads
\* is held at one value.
QueryRequests == ClientRequestInfos("query")
IdentRequests ==
  {r \in ClientRequestInfos("ident") : ~r.returnSessionUnlockKey}
OtherRequests(cmd) ==
  {r \in ClientRequestInfos(cmd) :
     r.previousIdentityPublicKey = NoKey /\ ~r.returnSessionUnlockKey}

(***************************************************************************)
(* NeDB operations                                                         *)
(***************************************************************************)
\* The first document, in _id order, of a non-empty set of documents.
FirstDoc(docs) == CHOOSE d \in docs : \A e \in docs : d.id <= e.id

\* userTable.findOne({$or: [{sqrlPrimaryIdentityPublicKey: k} : k in keys]})
FindOneUser(table, keys) ==
  LET matches == {d \in table : d.sqrlPrimaryIdentityPublicKey \in keys}
  IN IF matches = {} THEN NoDoc ELSE FirstDoc(matches)

\* nutTable.findOne({nut: nut})
GetNutRecord(table, nut) ==
  LET matches == {r \in table : r.nut = nut}
  IN IF matches = {} THEN NoNutRecord ELSE CHOOSE r \in matches : TRUE

\* findUser(sqrlPublicKey, done)
FindUser(table, sqrlPublicKey) == FindOneUser(table, {sqrlPublicKey})

(***************************************************************************)
(* findUserByEitherKey                                                     *)
(***************************************************************************)
KeyMatches(clientRequestInfo) ==
  {clientRequestInfo.primaryIdentityPublicKey}
    \cup (IF clientRequestInfo.previousIdentityPublicKey # NoKey
          THEN {clientRequestInfo.previousIdentityPublicKey} ELSE {})

\* findUserByEitherKey reporting every found record as a current-key match.
FindUserByEitherKeyAlwaysCurrent(table, clientRequestInfo) ==
  LET result == NewAuthCompletionInfo
      doc == FindOneUser(table, KeyMatches(clientRequestInfo))
  IN IF doc # NoDoc
     THEN [result EXCEPT !.user = DocValue(doc),
                         !.tifValues = BitOr(result.tifValues, CurrentIDMatch)]
     ELSE result

FindUserByEitherKey(table, clientRequestInfo) ==
  LET result == NewAuthCompletionInfo
      doc == FindOneUser(table, KeyMatches(clientRequestInfo))
  IN IF doc # NoDoc
     THEN IF doc.sqrlPrimaryIdentityPublicKey = clientRequestInfo.primaryIdentityPublicKey
          THEN [result EXCEPT !.user = DocValue(doc),
                              !.tifValues = BitOr(result.tifValues, CurrentIDMatch)]
          ELSE [result EXCEPT !.user = DocValue(doc),
                              !.tifValues = BitOr(result.tifValues, PreviousIDMatch)]
     ELSE result

(***************************************************************************)
(* Processes                                                               *)
(***************************************************************************)
NoPoll == [statusCode |-> 0, loggedIn |-> FALSE, user |-> NoDoc]

\* The two tables as an ident call found them; kept for the time of the call
\* to tell what the call itself has written.
NoTables == [userTable |-> {}, nutTable |-> {}]

IdleProc ==
  [pc |-> "idle", handler |-> "none", clientRequestInfo |-> NoRequest,
   nutInfo |-> NoNutRecord, authInfo |-> NewAuthCompletionInfo,
   originalNutRecord |-> NoNutRecord, pollResult |-> NoPoll,
   before |-> NoTables]

\* A process may take a new request when it is not in the middle of one.
Free(p) == proc[p].pc \in {"idle", "done", "failed"}

Init ==
  /\ userTable = {}
  /\ nutTable = {}
  /\ proc = [p \in Procs |-> IdleProc]
  /\ call = NoCall


(***************************************************************************)
(* nutIssuedToClientAsync                                                  *)
(***************************************************************************)
\* The /login route issues a nut without originalLoginNut; the SQRL API
\* handler issues the nut of a later round trip linked to the original
\* login nut, whose record may be gone from storage.  Nuts are unique.
IssueNut(nut, originalLoginNut) ==
  /\ GetNutRecord(nutTable, nut) = NoNutRecord
  /\ \/ originalLoginNut = NoNut
     \/ originalLoginNut \in OriginalNuts /\ nut \notin OriginalNuts
  /\ nutTable' = nutTable \cup {NutDBRecord(nut, originalLoginNut)}
  /\ UNCHANGED <<userTable, proc, call>>

\* Lines 241-243: the record is returned as it is stored, or null.
GetNutInfo(p, nut) ==
  /\ Free(p)
  /\ proc' = [proc EXCEPT ![p] =
       [IdleProc EXCEPT !.pc = "done", !.handler = "getNutInfo",
                        !.nutInfo = GetNutRecord(nutTable, nut),
                        !.originalNutRecord = [NoNutRecord EXCEPT !.nut = nut]]]
  /\ UNCHANGED <<userTable, nutTable, call>>

(***************************************************************************)
(* query, disable, enable, remove                                          *)
(***************************************************************************)
\* query returning the unlock key the request carries.
QueryResultRequestKey(table, clientRequestInfo) ==
  LET authInfo == FindUserByEitherKey(table, clientRequestInfo)
  IN IF Truthy(authInfo.user) /\ clientRequestInfo.returnSessionUnlockKey
     THEN [authInfo EXCEPT !.sessionUnlockKey = clientRequestInfo.serverUnlockPublicKey]
     ELSE authInfo

QueryResult(table, clientRequestInfo) ==
  LET authInfo == FindUserByEitherKey(table, clientRequestInfo)
  IN IF Truthy(authInfo.user) /\ clientRequestInfo.returnSessionUnlockKey
     THEN [authInfo EXCEPT !.sessionUnlockKey = authInfo.user.doc.sqrlServerUnlockPublicKey]
     ELSE authInfo

\* A handler that has returned: what it returned is kept until the process
\* takes its next request.
Finished(handler, authInfo) ==
  [IdleProc EXCEPT !.pc = "done", !.handler = handler, !.authInfo = authInfo]

\* The same for a handler that returns without a storage write: the request
\* it answered is kept with the answer.
Answered(handler, clientRequestInfo, authInfo) ==
  [Finished(handler, authInfo) EXCEPT !.clientRequestInfo = clientRequestInfo]

\* query creating the record it did not find.
QueryCreating(p, clientRequestInfo) ==
  /\ Free(p)
  /\ proc' = [proc EXCEPT ![p] =
       Answered("query", clientRequestInfo,
                QueryResult(userTable, clientRequestInfo))]
  /\ IF FindOneUser(userTable, KeyMatches(clientRequestInfo)) = NoDoc
        /\ Cardinality(userTable) < MaxUsers
     THEN \E id \in Ids \ {d.id : d \in userTable} :
            userTable' = userTable \cup
              {[NewFromClientRequestInfo(clientRequestInfo) EXCEPT !.id = id]}
     ELSE userTable' = userTable
  /\ UNCHANGED <<nutTable, call>>

Query(p, clientRequestInfo) ==
  /\ Free(p)
  /\ proc' = [proc EXCEPT ![p] =
       Answered("query", clientRequestInfo,
                QueryResult(userTable, clientRequestInfo))]
  /\ UNCHANGED <<userTable, nutTable, call>>

Disable(p, clientRequestInfo) ==
  /\ Free(p)
  /\ proc' = [proc EXCEPT ![p] =
       Answered("disable", clientRequestInfo, NewAuthCompletionInfo)]
  /\ UNCHANGED <<userTable, nutTable, call>>

Enable(p, clientRequestInfo) ==
  /\ Free(p)
  /\ proc' = [proc EXCEPT ![p] =
       Answered("enable", clientRequestInfo, NewAuthCompletionInfo)]
  /\ UNCHANGED <<userTable, nutTable, call>>

\* remove deleting the record of the request's key.
RemoveDeleting(p, clientRequestInfo) ==
  /\ Free(p)
  /\ proc' = [proc EXCEPT ![p] =
       Answered("remove", clientRequestInfo, NewAuthCompletionInfo)]
  /\ userTable' = userTable \
       {FindUser(userTable, clientRequestInfo.primaryIdentityPublicKey)}
  /\ UNCHANGED <<nutTable, call>>

Remove(p, clientRequestInfo) ==
  /\ Free(p)
  /\ proc' = [proc EXCEPT ![p] =
       Answered("remove", clientRequestInfo, NewAuthCompletionInfo)]
  /\ UNCHANGED <<userTable, nutTable, call>>

(***************************************************************************)
(* ident                                                                   *)
(***************************************************************************)
\* Lines 262-267: the found record rearranged for the new primary key.
Rotate(user, clientRequestInfo) ==
  [user EXCEPT
     !.sqrlPreviousIdentityPublicKeys =
        Append(user.sqrlPreviousIdentityPublicKeys,
               clientRequestInfo.previousIdentityPublicKey),
     !.sqrlPrimaryIdentityPublicKey = clientRequestInfo.primaryIdentityPublicKey]

\* userTable.update({sqrlPrimaryIdentityPublicKey: key}, newDoc): replaces
\* the first matching document; NeDB refuses to change a document's _id.
UpdateUser(table, key, newDoc) ==
  LET matches == {d \in table : d.sqrlPrimaryIdentityPublicKey = key}
  IN IF matches = {}
     THEN [table |-> table, numAffected |-> 0, err |-> FALSE]
     ELSE IF FirstDoc(matches).id # newDoc.id
     THEN [table |-> table, numAffected |-> 0, err |-> TRUE]
     ELSE [table |-> (table \ {FirstDoc(matches)}) \cup {newDoc},
           numAffected |-> 1, err |-> FALSE]

\* Lines 283-287: where ident goes once the identity is settled.
NutPhase(nutInfo) ==
  IF nutInfo.originalLoginNut # NoNut THEN "getOriginal" ELSE "markNut"

\* Lines 289-290.
CompleteLogin(originalNutRecord, authInfo) ==
  [originalNutRecord EXCEPT
     !.loggedIn = TRUE,
     !.clientPrimaryIdentityPublicKey = PrimaryKeyOf(authInfo.user)]

\* nutTable.update({nut: record.nut}, record)
UpdateNut(table, record) ==
  {IF r.nut = record.nut THEN record ELSE r : r \in table}

\* ident storing the request's option flags on a current-key match.
IdentFindRefreshing(p, clientRequestInfo, nutInfo) ==
  /\ Free(p)
  /\ nutInfo \in nutTable
  /\ LET found == FindUserByEitherKey(userTable, clientRequestInfo)
         rotating == Truthy(found.user) /\ BitAnd(found.tifValues, PreviousIDMatch) # 0
         refreshed == [found.user.doc EXCEPT
                         !.sqrlUseSqrlIdentityOnly = clientRequestInfo.useSqrlIdentityOnly,
                         !.sqrlHardLockSqrlUse = clientRequestInfo.hardLockSqrlUse]
         authInfo == IF rotating
                     THEN [found EXCEPT !.user =
                             DocValue(Rotate(found.user.doc, clientRequestInfo))]
                     ELSE found
         next == IF rotating THEN "update"
                 ELSE IF Truthy(found.user) THEN NutPhase(nutInfo)
                 ELSE "insert"
     IN /\ proc' = [proc EXCEPT ![p] =
             [IdleProc EXCEPT !.pc = next, !.handler = "ident",
                              !.clientRequestInfo = clientRequestInfo,
                              !.nutInfo = nutInfo,
                              !.authInfo = authInfo,
                              !.originalNutRecord = nutInfo,
                              !.before = [userTable |-> userTable,
                                          nutTable |-> nutTable]]]
        /\ userTable' = IF Truthy(found.user) /\ ~rotating
                        THEN (userTable \ {found.user.doc}) \cup {refreshed}
                        ELSE userTable
  /\ UNCHANGED <<nutTable, call>>

\* Line 257 and the branch taken at lines 258-260, 273.
IdentFind(p, clientRequestInfo, nutInfo) ==
  /\ Free(p)
  /\ nutInfo \in nutTable
  /\ LET found == FindUserByEitherKey(userTable, clientRequestInfo)
         rotating == Truthy(found.user) /\ BitAnd(found.tifValues, PreviousIDMatch) # 0
         authInfo == IF rotating
                     THEN [found EXCEPT !.user =
                             DocValue(Rotate(found.user.doc, clientRequestInfo))]
                     ELSE found
         next == IF rotating THEN "update"
                 ELSE IF Truthy(found.user) THEN NutPhase(nutInfo)
                 ELSE "insert"
     IN proc' = [proc EXCEPT ![p] =
          [IdleProc EXCEPT !.pc = next, !.handler = "ident",
                           !.clientRequestInfo = clientRequestInfo,
                           !.nutInfo = nutInfo,
                           !.authInfo = authInfo,
                           !.originalNutRecord = nutInfo,
                           !.before = [userTable |-> userTable,
                                       nutTable |-> nutTable]]]
  /\ UNCHANGED <<userTable, nutTable, call>>

\* Line 271, taken while the rearranged record has at most maxPrev previous
\* keys (the code itself has no limit).
IdentUpdateWithin(p, maxPrev) ==
  /\ proc[p].pc = "update"
  /\ Len(proc[p].authInfo.user.doc.sqrlPreviousIdentityPublicKeys) <= maxPrev
  /\ LET res == UpdateUser(userTable,
                           proc[p].clientRequestInfo.previousIdentityPublicKey,
                           proc[p].authInfo.user.doc)
     IN /\ userTable' = res.table
        /\ proc' = [proc EXCEPT ![p] =
             IF res.err
             THEN [@ EXCEPT !.pc = "failed"]
             ELSE [@ EXCEPT !.pc = NutPhase(proc[p].nutInfo),
                            !.authInfo.user = NumValue(res.numAffected)]]
  /\ UNCHANGED <<nutTable, call>>

IdentUpdate(p) == IdentUpdateWithin(p, MaxPrev)

\* Lines 275-278.
IdentInsert(p) ==
  /\ proc[p].pc = "insert"
  /\ Cardinality(userTable) < MaxUsers
  /\ \E id \in Ids \ {d.id : d \in userTable} :
       LET newRecord == [NewFromClientRequestInfo(proc[p].clientRequestInfo)
                           EXCEPT !.id = id]
       IN /\ userTable' = userTable \cup {newRecord}
          /\ proc' = [proc EXCEPT ![p] =
               [@ EXCEPT !.pc = NutPhase(proc[p].nutInfo),
                         !.authInfo.user = DocValue(newRecord),
                         !.authInfo.tifValues = 0]]
  /\ UNCHANGED <<nutTable, call>>

\* ident falling back to the passed record when the original is gone.
IdentGetOriginalFallback(p) ==
  /\ proc[p].pc = "getOriginal"
  /\ LET originalNutRecord == GetNutRecord(nutTable, proc[p].nutInfo.originalLoginNut)
     IN proc' = [proc EXCEPT ![p] =
          IF originalNutRecord # NoNutRecord
          THEN [@ EXCEPT !.pc = "markNut", !.originalNutRecord = originalNutRecord]
          ELSE [@ EXCEPT !.pc = "markNut", !.originalNutRecord = proc[p].nutInfo]]
  /\ UNCHANGED <<userTable, nutTable, call>>

\* Line 286.
IdentGetOriginal(p) ==
  /\ proc[p].pc = "getOriginal"
  /\ LET originalNutRecord == GetNutRecord(nutTable, proc[p].nutInfo.originalLoginNut)
     IN proc' = [proc EXCEPT ![p] =
          IF originalNutRecord # NoNutRecord
          THEN [@ EXCEPT !.pc = "markNut", !.originalNutRecord = originalNutRecord]
          ELSE [Finished("ident", proc[p].authInfo)
                  EXCEPT !.nutInfo = proc[p].nutInfo,
                         !.originalNutRecord = originalNutRecord]]
  /\ UNCHANGED <<userTable, nutTable, call>>

\* ident completing the login on the record it was passed.
IdentMarkNutPassed(p) ==
  /\ proc[p].pc = "markNut"
  /\ LET record == CompleteLogin(proc[p].nutInfo, proc[p].authInfo)
     IN /\ nutTable' = UpdateNut(nutTable, record)
        /\ proc' = [proc EXCEPT ![p] =
             [Finished("ident", proc[p].authInfo)
                EXCEPT !.nutInfo = proc[p].nutInfo,
                       !.originalNutRecord = record]]
  /\ UNCHANGED <<userTable, call>>

\* Lines 289-291.
IdentMarkNut(p) ==
  /\ proc[p].pc = "markNut"
  /\ LET record == CompleteLogin(proc[p].originalNutRecord, proc[p].authInfo)
     IN /\ nutTable' = UpdateNut(nutTable, record)
        /\ proc' = [proc EXCEPT ![p] =
             [Finished("ident", proc[p].authInfo)
                EXCEPT !.nutInfo = proc[p].nutInfo,
                       !.originalNutRecord = record]]
  /\ UNCHANGED <<userTable, call>>

\* Lines 271, 276, 286, 291: the awaited storage call rejects; ident has no
\* try/catch, so the rejection leaves the call at once and reaches the caller.
IdentStorageFails(p) ==
  /\ proc[p].pc \in {"update", "insert", "getOriginal", "markNut"}
  /\ proc' = [proc EXCEPT ![p].pc = "failed"]
  /\ UNCHANGED <<userTable, nutTable, call>>

(***************************************************************************)
(* Protocol driver: signature verification before the storage handlers     *)
(***************************************************************************)
\* The signatures a POST body may arrive with in the place of the signature
\* by key: made with the private key of either identity key over this body,
\* or made with the private key of key over another body.
SignaturesFor(key) ==
  {Sign(k) : k \in Keys} \cup {[signer |-> key, intact |-> FALSE]}

\* The bodies the driver is handed: the requests of clients with any
\* signatures in place of their own (pids comes with pidk).
PostBodies ==
  LET requests ==
        {r \in QueryRequests : ~r.returnSessionUnlockKey}
          \cup IdentRequests \cup OtherRequests("disable")
          \cup OtherRequests("enable") \cup OtherRequests("remove")
  IN UNION {
       {[r EXCEPT !.ids = ids, !.pids = pids] :
          ids \in SignaturesFor(r.primaryIdentityPublicKey),
          pids \in IF r.previousIdentityPublicKey = NoKey
                   THEN {NoSignature}
                   ELSE SignaturesFor(r.previousIdentityPublicKey)} :
       r \in requests}

\* verifyPrimary: ids is a signature of this body by the private key of idk.
VerifyPrimary(body) ==
  body.ids.intact /\ body.ids.signer = body.primaryIdentityPublicKey

\* verifyPrevious: the same for pidk and pids, when pidk is present.
VerifyPrevious(body) ==
  /\ body.previousIdentityPublicKey # NoKey
  /\ body.pids.intact /\ body.pids.signer = body.previousIdentityPublicKey

\* The request the handlers see: a previous key whose signature does not
\* verify is treated as not presented.
VerifiedRequest(body) ==
  IF VerifyPrevious(body) THEN body
  ELSE [body EXCEPT !.previousIdentityPublicKey = NoKey]

\* The driver handing every body to its handler without verification.
DriveUnverified(p, body, nutInfo) ==
  CASE body.sqrlCommand = "query" -> Query(p, body)
    [] body.sqrlCommand = "ident" -> IdentFind(p, body, nutInfo)
    [] body.sqrlCommand = "disable" -> Disable(p, body)
    [] body.sqrlCommand = "enable" -> Enable(p, body)
    [] body.sqrlCommand = "remove" -> Remove(p, body)

\* One request through the driver: a body whose primary signature does not
\* verify is answered CommandFailed | ClientFailure without any storage call;
\* the others go to the handler of their command.
Drive(p, body, nutInfo) ==
  IF ~VerifyPrimary(body)
  THEN /\ Free(p)
       /\ proc' = [proc EXCEPT ![p] =
            Answered(body.sqrlCommand, body,
                     [NewAuthCompletionInfo EXCEPT
                        !.tifValues = BitOr(CommandFailed, ClientFailure)])]
       /\ UNCHANGED <<userTable, nutTable, call>>
  ELSE LET clientRequestInfo == VerifiedRequest(body)
       IN CASE body.sqrlCommand = "query" -> Query(p, clientRequestInfo)
            [] body.sqrlCommand = "ident" -> IdentFind(p, clientRequestInfo, nutInfo)
            [] body.sqrlCommand = "disable" -> Disable(p, clientRequestInfo)
            [] body.sqrlCommand = "enable" -> Enable(p, clientRequestInfo)
            [] body.sqrlCommand = "remove" -> Remove(p, clientRequestInfo)

(***************************************************************************)
(* GET /pollNut/:nut                                                       *)
(***************************************************************************)
\* Line 155: the record does not (yet) show a completed login.
PollPending(nutRecord) ==
  ~nutRecord.loggedIn \/ nutRecord.clientPrimaryIdentityPublicKey = NoKey

\* Lines 149-157.
PollNut(p, nut) ==
  /\ Free(p)
  /\ LET nutRecord == GetNutRecord(nutTable, nut)
         started == [IdleProc EXCEPT !.handler = "poll", !.nutInfo = nutRecord,
                                     !.originalNutRecord =
                                        [NoNutRecord EXCEPT !.nut = nut]]
     IN proc' = [proc EXCEPT ![p] =
          IF nutRecord = NoNutRecord
          THEN [started EXCEPT !.pc = "done", !.pollResult.statusCode = 404]
          ELSE IF PollPending(nutRecord)
          THEN [started EXCEPT !.pc = "done", !.pollResult.statusCode = 200]
          ELSE [started EXCEPT !.pc = "findUser"]]
  /\ UNCHANGED <<userTable, nutTable, call>>

\* Lines 159-180; req.login runs the serializer of line 90, which fails on
\* a null user record.
PollFindUser(p) ==
  /\ proc[p].pc = "findUser"
  /\ LET userDBRecord == FindUser(userTable, proc[p].nutInfo.clientPrimaryIdentityPublicKey)
     IN proc' = [proc EXCEPT ![p] =
          IF userDBRecord = NoDoc
          THEN [@ EXCEPT !.pc = "done", !.pollResult.statusCode = 400]
          ELSE [@ EXCEPT !.pc = "done",
                         !.pollResult = [statusCode |-> 200,
                                         loggedIn |-> proc[p].nutInfo.loggedIn,
                                         user |-> userDBRecord]]]
  /\ UNCHANGED <<userTable, nutTable, call>>

(***************************************************************************)
(* SQRL URLs: text, url.parse, canonicalizeSqrlUrl, SqrlUrlFactory.create  *)
(***************************************************************************)
\* Text is a sequence of one-character strings, so that slicing, searching
\* and case conversion are computed character by character.
UpperCase ==
  <<"A", "B", "C", "D", "E", "F", "G", "H", "I", "J", "K", "L", "M",
    "N", "O", "P", "Q", "R", "S", "T", "U", "V", "W", "X", "Y", "Z">>
LowerCase ==
  <<"a", "b", "c", "d", "e", "f", "g", "h", "i", "j", "k", "l", "m",
    "n", "o", "p", "q", "r", "s", "t", "u", "v", "w", "x", "y", "z">>
Digits == <<"0", "1", "2", "3", "4", "5", "6", "7", "8", "9">>

Range(seq) == {seq[i] : i \in DOMAIN seq}

\* String.prototype.toLowerCase, on one character and on a text.
ToLowerCaseChar(c) ==
  IF c \in Range(UpperCase)
  THEN LowerCase[CHOOSE i \in DOMAIN UpperCase : UpperCase[i] = c]
  ELSE c
ToLowerCase(text) == [i \in DOMAIN text |-> ToLowerCaseChar(text[i])]

\* First and last position of a character of chars in text; 0 when there is
\* none (indexOf and lastIndexOf return -1).
IndexOf(text, chars) ==
  IF \E i \in DOMAIN text : text[i] \in chars
  THEN CHOOSE i \in DOMAIN text :
         /\ text[i] \in chars
         /\ \A j \in 1..(i - 1) : text[j] \notin chars
  ELSE 0
LastIndexOf(text, chars) ==
  IF \E i \in DOMAIN text : text[i] \in chars
  THEN CHOOSE i \in DOMAIN text :
         /\ text[i] \in chars
         /\ \A j \in (i + 1)..Len(text) : text[j] \notin chars
  ELSE 0
\* The text from position from (1-based) to its end.
From(text, from) == SubSeq(text, from, Len(text))

\* Node's legacy url.parse(text, false), for text over letters, digits and
\* the delimiters : / ? # @ . + - = & (nothing that url.parse escapes or
\* that ends a host name early), and for a text that starts with a protocol:
\* without one url.parse takes the whole text as path.

\* protocolPattern /^[a-z0-9.+-]+:/i: the length of the match, 0 for none.
ProtocolLength(text) ==
  LET protocolChars == Range(UpperCase) \cup Range(LowerCase)
                         \cup Range(Digits) \cup {".", "+", "-"}
      stop == IF \E i \in DOMAIN text : text[i] \notin protocolChars
              THEN CHOOSE i \in DOMAIN text :
                     /\ text[i] \notin protocolChars
                     /\ \A j \in 1..(i - 1) : text[j] \in protocolChars
              ELSE 0
  IN IF stop > 1 /\ text[stop] = ":" THEN stop ELSE 0

\* slashedProtocol: protocols that always have a path of at least "/".
SlashedProtocols ==
  {<<"h", "t", "t", "p", ":">>, <<"h", "t", "t", "p", "s", ":">>,
   <<"f", "t", "p", ":">>, <<"f", "i", "l", "e", ":">>,
   <<"g", "o", "p", "h", "e", "r", ":">>}

\* url.parse proceeds through the text from left to right; each operator
\* below is one stage of it, handed what the stages before it have found.
\* The Url object: pathname is at least "/" for a slashed protocol with a
\* host, and path is pathname followed by search.
UrlObject(protocol, authority, pathname, search, hash) ==
  LET rooted == IF /\ protocol \in SlashedProtocols
                   /\ authority.hostname # <<>>
                   /\ pathname = <<>>
                THEN <<"/">>
                ELSE pathname
  IN [protocol |-> protocol, auth |-> authority.auth,
      host |-> authority.host, hostname |-> authority.hostname,
      port |-> authority.port, pathname |-> rooted, search |-> search,
      path |-> rooted \o search, hash |-> hash]

\* search starts at the first ? of what precedes the hash.
ParseSearch(protocol, authority, rest, hash) ==
  LET queryAt == IndexOf(rest, {"?"})
  IN UrlObject(protocol, authority,
               IF queryAt = 0 THEN rest ELSE SubSeq(rest, 1, queryAt - 1),
               IF queryAt = 0 THEN <<>> ELSE From(rest, queryAt),
               hash)

\* hash starts at the first # after the authority.
ParseHash(protocol, authority, rest) ==
  LET hashAt == IndexOf(rest, {"#"})
  IN ParseSearch(protocol, authority,
                 IF hashAt = 0 THEN rest ELSE SubSeq(rest, 1, hashAt - 1),
                 IF hashAt = 0 THEN <<>> ELSE From(rest, hashAt))

\* host is the lower-cased hostname with the port, if any.
Authority(auth, hostname, port) ==
  [auth |-> auth, hostname |-> hostname, port |-> port,
   host |-> IF port = <<>> THEN hostname ELSE hostname \o <<":">> \o port]

\* parseHost: portPattern /:[0-9]*$/ splits the port off; the hostname is
\* lower-cased.
ParseHost(auth, hostAndPort) ==
  LET colon == LastIndexOf(hostAndPort, {":"})
      hasPort == /\ colon > 0
                 /\ \A i \in (colon + 1)..Len(hostAndPort) :
                      hostAndPort[i] \in Range(Digits)
  IN IF hasPort
     THEN Authority(auth, ToLowerCase(SubSeq(hostAndPort, 1, colon - 1)),
                    From(hostAndPort, colon + 1))
     ELSE Authority(auth, ToLowerCase(hostAndPort), <<>>)

\* auth is what precedes the last @ of the authority.
ParseAuth(authority) ==
  LET atSign == LastIndexOf(authority, {"@"})
  IN ParseHost(SubSeq(authority, 1, atSign - 1), From(authority, atSign + 1))

\* The authority ends at the first / ? or #.
ParseAuthority(protocol, hasHost, rest) ==
  LET hostEnd == IndexOf(rest, {"/", "?", "#"})
      authority == IF ~hasHost THEN <<>>
                   ELSE IF hostEnd = 0 THEN rest
                   ELSE SubSeq(rest, 1, hostEnd - 1)
  IN ParseHash(protocol, ParseAuth(authority), From(rest, Len(authority) + 1))

\* "//" after the protocol is dropped; a host follows it, and follows any
\* protocol that is not a slashed one.
ParseSlashes(protocol, rest) ==
  LET slashes == /\ protocol # <<>>
                 /\ Len(rest) >= 2
                 /\ rest[1] = "/"
                 /\ rest[2] = "/"
  IN ParseAuthority(
       protocol,
       slashes \/ (protocol # <<>> /\ protocol \notin SlashedProtocols),
       IF slashes THEN From(rest, 3) ELSE rest)

\* The protocol is lower-cased.
UrlParse(text) ==
  LET protoLen == ProtocolLength(text)
  IN ParseSlashes(ToLowerCase(SubSeq(text, 1, protoLen)),
                  From(text, protoLen + 1))

\* canonicalizeSqrlUrl keeping urlObj.host, which carries the port.
CanonicalizeSqrlUrlWithHost(sqrlUrl) ==
  LET urlObj == UrlParse(sqrlUrl)
  IN ToLowerCase(urlObj.protocol) \o <<"/", "/">>
       \o ToLowerCase(urlObj.host) \o urlObj.path

\* Lines 19-27; the protocol already ends in ':', and a null protocol,
\* hostname or path counts as the empty text.
CanonicalizeSqrlUrl(sqrlUrl) ==
  LET urlObj == UrlParse(sqrlUrl)
      scheme == ToLowerCase(urlObj.protocol)
      domain == ToLowerCase(urlObj.hostname)
      path == urlObj.path
  IN scheme \o <<"/", "/">> \o domain \o path

\* generateServerContactUrl leaving the port out.
GenerateServerContactUrlWithoutPort(sqrlUrl) ==
  LET urlObj == UrlParse(sqrlUrl)
      scheme == IF ToLowerCase(urlObj.protocol) = <<"q", "r", "l", ":">>
                THEN <<"h", "t", "t", "p">>
                ELSE <<"h", "t", "t", "p", "s">>
  IN scheme \o <<":", "/", "/">> \o urlObj.hostname \o urlObj.path

\* Lines 29-37.  A URL with a protocol has a hostname (possibly empty), so
\* the template never prints null for it.
GenerateServerContactUrl(sqrlUrl) ==
  LET urlObj == UrlParse(sqrlUrl)
      scheme == IF ToLowerCase(urlObj.protocol) = <<"q", "r", "l", ":">>
                THEN <<"h", "t", "t", "p">>
                ELSE <<"h", "t", "t", "p", "s">>
      path == urlObj.path
      port == IF urlObj.port # <<>> THEN <<":">> \o urlObj.port ELSE <<>>
  IN scheme \o <<":", "/", "/">> \o urlObj.hostname \o port \o path

\* An optional argument: absent (undefined) or given with a value.
Absent == {}
Given(value) == {value}
ValueOf(argument) == CHOOSE value \in argument : TRUE

Min(a, b) == IF a < b THEN a ELSE b

\* A non-negative integer in a template string: its decimal digits.
RECURSIVE NumberToText(_)
NumberToText(n) ==
  IF n < 10 THEN <<Digits[n + 1]>>
  ELSE NumberToText(n \div 10) \o <<Digits[(n % 10) + 1]>>

\* The printable ASCII characters, from the space (code 32) to the tilde
\* (code 126), and the two characters of a line end.  The grave accent
\* (code 96) cannot be written in a string and goes by its name.
Ascii ==
  <<" ", "!", "\"", "#", "$", "%", "&", "'", "(", ")", "*", "+",
    ",", "-", ".", "/", "0", "1", "2", "3", "4", "5", "6", "7",
    "8", "9", ":", ";", "<", "=", ">", "?", "@", "A", "B", "C",
    "D", "E", "F", "G", "H", "I", "J", "K", "L", "M", "N", "O",
    "P", "Q", "R", "S", "T", "U", "V", "W", "X", "Y", "Z", "[",
    "\\", "]", "^", "_", "grave", "a", "b", "c", "d", "e", "f", "g",
    "h", "i", "j", "k", "l", "m", "n", "o", "p", "q", "r", "s",
    "t", "u", "v", "w", "x", "y", "z", "{", "|", "}", "~">>
CR == "\r"
LF == "\n"
CRLF == <<CR, LF>>

\* The UTF-8 byte of a character and the character of a byte (ASCII).
CharCode(c) ==
  IF c = CR THEN 13
  ELSE IF c = LF THEN 10
  ELSE 31 + (CHOOSE i \in DOMAIN Ascii : Ascii[i] = c)
CharFromCode(code) ==
  IF code = 13 THEN CR
  ELSE IF code = 10 THEN LF
  ELSE Ascii[code - 31]

\* base64url.encode (packages base64-url and base64url): the UTF-8 bytes in
\* base64 with '+' and '/' replaced by '-' and '_' and the '=' padding
\* removed.
Base64UrlAlphabet == UpperCase \o LowerCase \o Digits \o <<"-", "_">>
Base64UrlEncode(text) ==
  LET byte(i) == IF i \in DOMAIN text THEN CharCode(text[i]) ELSE 0
      \* The k-th group of six bits of the byte stream.
      sextet(k) ==
        LET bit == (k - 1) * 6
            window == byte((bit \div 8) + 1) * 256 + byte((bit \div 8) + 2)
        IN (window \div (2 ^ (10 - (bit % 8)))) % 64
  IN [k \in 1..((4 * Len(text) + 2) \div 3) |-> Base64UrlAlphabet[sextet(k) + 1]]

\* base64url.decode of text made of characters of the alphabet: the bytes
\* of the complete groups of eight bits.
Base64UrlDecode(text) ==
  LET sextet(i) ==
        IF i \in DOMAIN text
        THEN (CHOOSE v \in DOMAIN Base64UrlAlphabet :
                Base64UrlAlphabet[v] = text[i]) - 1
        ELSE 0
      \* The k-th group of eight bits of the sextet stream.
      byte(k) ==
        LET bit == (k - 1) * 8
            window == sextet((bit \div 6) + 1) * 64 + sextet((bit \div 6) + 2)
        IN (window \div (2 ^ (4 - (bit % 6)))) % 256
  IN [k \in 1..((3 * Len(text)) \div 4) |-> CharFromCode(byte(k))]

\* create without the '/' that starts a path given without one.
SqrlUrlFactoryCreateUnslashed(secure, domain, serverNut, pathString, domainExtension, serverFriendlyName) ==
  LET scheme == IF secure THEN <<"s", "q", "r", "l">> ELSE <<"q", "r", "l">>
      given == IF pathString = Absent THEN <<>> ELSE ValueOf(pathString)
      slashed == given
      normalized == IF Len(slashed) > 0 /\ slashed[Len(slashed)] = "?"
                    THEN SubSeq(slashed, 1, Len(slashed) - 1)
                    ELSE slashed
      domainExt ==
        IF /\ Len(normalized) > 0
           /\ domainExtension # Absent
           /\ ValueOf(domainExtension) > 0
        THEN <<"&", "x", "=">>
               \o NumberToText(Min(ValueOf(domainExtension), Len(normalized)))
        ELSE <<>>
      sfn ==
        IF serverFriendlyName # Absent /\ Len(ValueOf(serverFriendlyName)) > 0
        THEN <<"&", "s", "f", "n", "=">>
               \o Base64UrlEncode(ValueOf(serverFriendlyName))
        ELSE <<>>
  IN scheme \o <<":", "/", "/">> \o domain \o normalized
       \o <<"?", "n", "u", "t", "=">> \o serverNut \o domainExt \o sfn

\* create without Math.min on the domain extension.
SqrlUrlFactoryCreateUnclamped(secure, domain, serverNut, pathString, domainExtension, serverFriendlyName) ==
  LET scheme == IF secure THEN <<"s", "q", "r", "l">> ELSE <<"q", "r", "l">>
      given == IF pathString = Absent THEN <<>> ELSE ValueOf(pathString)
      slashed == IF Len(given) > 0 /\ given[1] # "/"
                 THEN <<"/">> \o given
                 ELSE given
      normalized == IF Len(slashed) > 0 /\ slashed[Len(slashed)] = "?"
                    THEN SubSeq(slashed, 1, Len(slashed) - 1)
                    ELSE slashed
      domainExt ==
        IF /\ Len(normalized) > 0
           /\ domainExtension # Absent
           /\ ValueOf(domainExtension) > 0
        THEN <<"&", "x", "=">>
               \o NumberToText(ValueOf(domainExtension))
        ELSE <<>>
      sfn ==
        IF serverFriendlyName # Absent /\ Len(ValueOf(serverFriendlyName)) > 0
        THEN <<"&", "s", "f", "n", "=">>
               \o Base64UrlEncode(ValueOf(serverFriendlyName))
        ELSE <<>>
  IN scheme \o <<":", "/", "/">> \o domain \o normalized
       \o <<"?", "n", "u", "t", "=">> \o serverNut \o domainExt \o sfn

\* SqrlUrl.ts lines 29-64.  An absent or empty pathString is the empty path;
\* a domainExtension that is absent or 0 is falsy.
SqrlUrlFactoryCreate(secure, domain, serverNut, pathString, domainExtension, serverFriendlyName) ==
  LET scheme == IF secure THEN <<"s", "q", "r", "l">> ELSE <<"q", "r", "l">>
      given == IF pathString = Absent THEN <<>> ELSE ValueOf(pathString)
      slashed == IF Len(given) > 0 /\ given[1] # "/"
                 THEN <<"/">> \o given
                 ELSE given
      normalized == IF Len(slashed) > 0 /\ slashed[Len(slashed)] = "?"
                    THEN SubSeq(slashed, 1, Len(slashed) - 1)
                    ELSE slashed
      domainExt ==
        IF /\ Len(normalized) > 0
           /\ domainExtension # Absent
           /\ ValueOf(domainExtension) > 0
        THEN <<"&", "x", "=">>
               \o NumberToText(Min(ValueOf(domainExtension), Len(normalized)))
        ELSE <<>>
      sfn ==
        IF serverFriendlyName # Absent /\ Len(ValueOf(serverFriendlyName)) > 0
        THEN <<"&", "s", "f", "n", "=">>
               \o Base64UrlEncode(ValueOf(serverFriendlyName))
        ELSE <<>>
  IN scheme \o <<":", "/", "/">> \o domain \o normalized
       \o <<"?", "n", "u", "t", "=">> \o serverNut \o domainExt \o sfn

\* The instance method with the configured path taking precedence.
SqrlUrlFactoryInstanceCreateConfiguredFirst(factory, serverNut, pathString, domainExtension) ==
  SqrlUrlFactoryCreate(
    factory.secure, factory.domain, serverNut,
    IF factory.pathString # Absent /\ ValueOf(factory.pathString) # <<>>
    THEN factory.pathString ELSE pathString,
    domainExtension, factory.serverFriendlyName)

\* SqrlUrl.ts lines 91-93: pathString || this.pathString takes the
\* configured path when the call gives none or an empty one.
SqrlUrlFactoryInstanceCreate(factory, serverNut, pathString, domainExtension) ==
  SqrlUrlFactoryCreate(
    factory.secure, factory.domain, serverNut,
    IF pathString # Absent /\ ValueOf(pathString) # <<>>
    THEN pathString ELSE factory.pathString,
    domainExtension, factory.serverFriendlyName)

\* SQRL URLs given to canonicalizeSqrlUrl, by their parts: the scheme in
\* several letter cases, optional userinfo, the host in two letter cases,
\* an optional port, path and query with upper-case letters (or neither, or
\* a query without a path), and an optional fragment.
UrlSchemes ==
  {<<"s", "q", "r", "l">>, <<"q", "r", "l">>,
   <<"S", "Q", "r", "L">>, <<"Q", "R", "L">>}
UrlUserInfos == {<<>>, <<"u", ":", "P", "@">>}
UrlHosts ==
  {<<"f", "o", "o", ".", "c", "o", "m">>, <<"F", "O", "O", ".", "c", "o", "m">>}
UrlPorts == {<<>>, <<":", "8", "0">>}
UrlPathQueries ==
  {<<>>, <<"/">>, <<"/", "P", "a", "t", "h">>,
   <<"/", "p", "?", "Q", "=", "U", "P">>, <<"?", "b", "=", "B">>}
UrlFragments == {<<>>, <<"#", "F">>}
SqrlUrls ==
  [kind : {"url"}, scheme : UrlSchemes, userinfo : UrlUserInfos,
   host : UrlHosts, port : UrlPorts, pathQuery : UrlPathQueries,
   fragment : UrlFragments]
UrlText(u) ==
  u.scheme \o <<":", "/", "/">> \o u.userinfo \o u.host \o u.port
    \o u.pathQuery \o u.fragment

\* Arguments of SqrlUrlFactory.create.
CreateArguments ==
  [kind : {"create"}, secure : BOOLEAN,
   domain : {<<"f", "o", "o", ".", "c", "o", "m">>,
             <<"F", "o", "o", ".", "c", "o", "m">>},
   serverNut : {<<"n", "1">>},
   pathString : {Absent, Given(<<>>), Given(<<"a", "B">>),
                 Given(<<"/", "a", "B">>), Given(<<"/", "a", "?">>),
                 Given(<<"?">>)},
   domainExtension : {Absent, Given(-1), Given(0), Given(2), Given(12)},
   serverFriendlyName : {Absent, Given(<<>>), Given(<<"H", "i">>)}]

\* A configured SqrlUrlFactory (lines 79-84) and the arguments of one call
\* of its create method.
FactoryCalls ==
  [kind : {"factory"},
   factory : [secure : BOOLEAN,
              domain : {<<"f", "o", "o", ".", "c", "o", "m">>},
              pathString : {Absent, Given(<<"c", "?">>)},
              serverFriendlyName : {Absent, Given(<<"H", "i">>)}],
   serverNut : {<<"n", "1">>},
   pathString : {Absent, Given(<<>>), Given(<<"a", "B">>),
                 Given(<<"/", "a", "?">>)},
   domainExtension : {Absent, Given(2)}]

\* One call of canonicalizeSqrlUrl on a given URL.
CallCanonicalize ==
  /\ call.op = "none"
  /\ call.origin.kind = "url"
  /\ call' = [call EXCEPT !.op = "canonicalizeSqrlUrl",
                          !.output = CanonicalizeSqrlUrl(call.input)]
  /\ UNCHANGED <<userTable, nutTable, proc>>

\* One call of generateServerContactUrl on a given URL.
CallGenerateServerContactUrl ==
  /\ call.op = "none"
  /\ call.origin.kind = "url"
  /\ call' = [call EXCEPT !.op = "generateServerContactUrl",
                          !.output = GenerateServerContactUrl(call.input)]
  /\ UNCHANGED <<userTable, nutTable, proc>>

\* One call of SqrlUrlFactory.create.
CallCreate ==
  /\ call.op = "none"
  /\ call.origin.kind = "create"
  /\ call' = [call EXCEPT
       !.op = "create",
       !.output = SqrlUrlFactoryCreate(
                    call.origin.secure, call.origin.domain,
                    call.origin.serverNut, call.origin.pathString,
                    call.origin.domainExtension,
                    call.origin.serverFriendlyName)]
  /\ UNCHANGED <<userTable, nutTable, proc>>

\* One call of the create method of a configured factory.
CallInstanceCreate ==
  /\ call.op = "none"
  /\ call.origin.kind = "factory"
  /\ call' = [call EXCEPT
       !.op = "instanceCreate",
       !.output = SqrlUrlFactoryInstanceCreate(
                    call.origin.factory, call.origin.serverNut,
                    call.origin.pathString, call.origin.domainExtension)]
  /\ UNCHANGED <<userTable, nutTable, proc>>

\* canonicalizeSqrlUrl on what the previous call returned: a created URL
\* (line 126, the client canonicalizes the URL it was handed) or a URL
\* that is already canonical.
CallCanonicalizeOutput ==
  /\ call.made = "given"
  /\ call.op \in {"create", "canonicalizeSqrlUrl"}
  /\ call' = [call EXCEPT
       !.op = "canonicalizeSqrlUrl",
       !.input = call.output,
       !.made = IF call.op = "create" THEN "created" ELSE "canonical",
       !.output = CanonicalizeSqrlUrl(call.output)]
  /\ UNCHANGED <<userTable, nutTable, proc>>

(***************************************************************************)
(* Wire codec and the client's view of a server response                   *)
(***************************************************************************)
\* Where separator first occurs in text; 0 when it does not.
FindText(text, separator) ==
  LET starts == {i \in 1..(Len(text) - Len(separator) + 1) :
                   SubSeq(text, i, i + Len(separator) - 1) = separator}
  IN IF starts = {} THEN 0
     ELSE CHOOSE i \in starts : \A j \in starts : i <= j

\* String.prototype.split and Array.prototype.join.
RECURSIVE Split(_, _)
Split(text, separator) ==
  LET at == FindText(text, separator)
  IN IF at = 0 THEN <<text>>
     ELSE <<SubSeq(text, 1, at - 1)>>
            \o Split(From(text, at + Len(separator)), separator)
RECURSIVE Join(_, _)
Join(parts, separator) ==
  IF parts = <<>> THEN <<>>
  ELSE IF Len(parts) = 1 THEN parts[1]
  ELSE parts[1] \o separator \o Join(Tail(parts), separator)

\* JavaScript NaN.
NaN == "NaN"
\* Number(text) for text of decimal digits; the empty text is 0 and text
\* with another character in it is NaN.
RECURSIVE DecimalValue(_)
DecimalValue(digits) ==
  IF digits = <<>> THEN 0
  ELSE DecimalValue(SubSeq(digits, 1, Len(digits) - 1)) * 10
         + (CharCode(digits[Len(digits)]) - CharCode("0"))
IsNumber(text) == \A i \in DOMAIN text : text[i] \in Range(Digits)
NumberOf(text) == IF IsNumber(text) THEN DecimalValue(text) ELSE NaN

\* parseInt(text, 16) for text without sign, blanks or 0x prefix: the value
\* of the hexadecimal digits the text starts with, NaN when it starts with
\* none.
HexDigits == Digits \o <<"a", "b", "c", "d", "e", "f">>
HexDigitValue(c) ==
  (CHOOSE v \in DOMAIN HexDigits : HexDigits[v] = ToLowerCaseChar(c)) - 1
RECURSIVE HexValue(_)
HexValue(digits) ==
  IF digits = <<>> THEN 0
  ELSE HexValue(SubSeq(digits, 1, Len(digits) - 1)) * 16
         + HexDigitValue(digits[Len(digits)])
ParseInt16(text) ==
  LET isHex(c) == ToLowerCaseChar(c) \in Range(HexDigits)
      stop == IF \E i \in DOMAIN text : ~isHex(text[i])
              THEN CHOOSE i \in DOMAIN text :
                     ~isHex(text[i]) /\ \A j \in 1..(i - 1) : isHex(text[j])
              ELSE Len(text) + 1
  IN IF stop = 1 THEN NaN ELSE HexValue(SubSeq(text, 1, stop - 1))

\* SqrlBodyParser.parseBase64CRLFSeparatedFields: the text is decoded and
\* split at CRLF; every line that is not empty is split at its first '='
\* into name and value.  The fields are kept in line order; a line without
\* '=' is an error.
NoFields == [error |-> "none", fields |-> <<>>]
ParseBase64CRLFSeparatedFields(body) ==
  LET lines == SelectSeq(Split(Base64UrlDecode(body), CRLF),
                         LAMBDA line : line # <<>>)
  IN IF \E i \in DOMAIN lines : IndexOf(lines[i], {"="}) = 0
     THEN [NoFields EXCEPT !.error = "MalformedBodyError"]
     ELSE [NoFields EXCEPT !.fields =
             [i \in DOMAIN lines |->
                [name |-> SubSeq(lines[i], 1, IndexOf(lines[i], {"="}) - 1),
                 value |-> From(lines[i], IndexOf(lines[i], {"="}) + 1)]]]

\* props.<name>: the value of the last field of that name, or undefined.
Property(fields, name) ==
  LET at == {i \in DOMAIN fields : fields[i].name = name}
  IN IF at = {} THEN Absent
     ELSE Given(fields[CHOOSE i \in at : \A j \in at : j <= i].value)
\* A property is truthy when it is there and not the empty text.
Present(property) == property # Absent /\ ValueOf(property) # <<>>

\* Lines 44-57 for one token of ver: the versions it adds.  A token that
\* is not a number adds NaN; a range with such a bound adds nothing.
MalformedVersion(token) == Len(Split(token, <<"-">>)) > 2
\* The range taken without its upper bound.
VersionsOfExclusive(token) ==
  LET rangeLoHi == Split(token, <<"-">>)
      lo == rangeLoHi[1]
      hi == rangeLoHi[Len(rangeLoHi)]
  IN IF Len(rangeLoHi) = 1 THEN <<NumberOf(lo)>>
     ELSE IF ~IsNumber(lo) \/ ~IsNumber(hi) THEN <<>>
     ELSE [i \in 1..(NumberOf(hi) - NumberOf(lo)) |-> NumberOf(lo) + i - 1]
VersionsOf(token) ==
  LET rangeLoHi == Split(token, <<"-">>)
      lo == rangeLoHi[1]
      hi == rangeLoHi[Len(rangeLoHi)]
  IN IF Len(rangeLoHi) = 1 THEN <<NumberOf(lo)>>
     ELSE IF ~IsNumber(lo) \/ ~IsNumber(hi) THEN <<>>
     ELSE [i \in 1..(NumberOf(hi) - NumberOf(lo) + 1) |-> NumberOf(lo) + i - 1]
RECURSIVE SupportedVersions(_)
SupportedVersions(vers) ==
  IF vers = <<>> THEN <<>>
  ELSE VersionsOf(Head(vers)) \o SupportedVersions(Tail(vers))

\* Lines 69-89: the ask fields; parts[1].split fails for an ask value
\* without '~'.
NoAsk ==
  [askMessage |-> Absent, askButton1Label |-> Absent, askButton1Url |-> Absent,
   askButton2Label |-> Absent, askButton2Url |-> Absent]
\* The ask fields without a second button.
AskFromPartsButton1Only(parts) ==
  LET button1Parts == Split(parts[2], <<";">>)
      button2Parts == <<>>
  IN [askMessage |-> Given(parts[1]),
      askButton1Label |-> Given(button1Parts[1]),
      askButton1Url |-> IF Len(button1Parts) > 1
                        THEN Given(button1Parts[2]) ELSE Absent,
      askButton2Label |-> IF Len(button2Parts) > 0
                          THEN Given(button2Parts[1]) ELSE Absent,
      askButton2Url |-> IF Len(button2Parts) > 1
                        THEN Given(button2Parts[2]) ELSE Absent]
AskFromParts(parts) ==
  LET button1Parts == Split(parts[2], <<";">>)
      button2Parts == IF Len(parts) > 2 THEN Split(parts[3], <<";">>) ELSE <<>>
  IN [askMessage |-> Given(parts[1]),
      askButton1Label |-> Given(button1Parts[1]),
      askButton1Url |-> IF Len(button1Parts) > 1
                        THEN Given(button1Parts[2]) ELSE Absent,
      askButton2Label |-> IF Len(button2Parts) > 0
                          THEN Given(button2Parts[1]) ELSE Absent,
      askButton2Url |-> IF Len(button2Parts) > 1
                        THEN Given(button2Parts[2]) ELSE Absent]
ParseAsk(ask) ==
  IF Present(ask) THEN AskFromParts(Split(ValueOf(ask), <<"~">>)) ELSE NoAsk

\* What a call returns or throws.
Returned(value) == [threw |-> "none", value |-> value]
Threw(error) == [threw |-> error, value |-> "none"]
VersionError == "Version value appears to be malformed, with either no values or more than one dash"
MissingError(name) ==
  CASE name = "nut" -> "Server values did not contain the required nut= property"
    [] name = "tif" -> "Server values did not contain the required tif= property"
    [] name = "qry" -> "Server values did not contain the required qry= property"

\* Lines 91-104.
ServerResponseInfo(fields) ==
  LET ask == ParseAsk(Property(fields, <<"a", "s", "k">>))
  IN [supportedProtocolVersions |->
        SupportedVersions(
          Split(ValueOf(Property(fields, <<"v", "e", "r">>)), <<",">>)),
      nextNut |-> ValueOf(Property(fields, <<"n", "u", "t">>)),
      tifValues |-> ParseInt16(ValueOf(Property(fields, <<"t", "i", "f">>))),
      nextRequestPathAndQuery |-> ValueOf(Property(fields, <<"q", "r", "y">>)),
      successfulAuthenticationRedirectUrl |-> Property(fields, <<"u", "r", "l">>),
      secretIndex |-> Property(fields, <<"s", "i", "n">>),
      serverUnlockKey |-> Property(fields, <<"s", "u", "k">>),
      askMessage |-> ask.askMessage,
      askButton1Label |-> ask.askButton1Label,
      askButton1Url |-> ask.askButton1Url,
      askButton2Label |-> ask.askButton2Label,
      askButton2Url |-> ask.askButton2Url]

\* Lines 42-104 on the decoded properties, in the order of the code: ver is
\* expanded first (props.ver.split fails when there is no ver), then nut,
\* tif and qry are required, then ask is taken apart.
ParseServerFields(fields) ==
  LET ver == Property(fields, <<"v", "e", "r">>)
      ask == Property(fields, <<"a", "s", "k">>)
  IN IF ver = Absent
       THEN Threw("TypeError")
     ELSE IF \E i \in DOMAIN Split(ValueOf(ver), <<",">>) :
               MalformedVersion(Split(ValueOf(ver), <<",">>)[i])
       THEN Threw(VersionError)
     ELSE IF ~Present(Property(fields, <<"n", "u", "t">>))
       THEN Threw(MissingError("nut"))
     ELSE IF ~Present(Property(fields, <<"t", "i", "f">>))
       THEN Threw(MissingError("tif"))
     ELSE IF ~Present(Property(fields, <<"q", "r", "y">>))
       THEN Threw(MissingError("qry"))
     ELSE IF Present(ask) /\ Len(Split(ValueOf(ask), <<"~">>)) < 2
       THEN Threw("TypeError")
     ELSE Returned(ServerResponseInfo(fields))

\* Lines 39-105.
ParseServerBody(body) ==
  LET props == ParseBase64CRLFSeparatedFields(body)
  IN IF props.error # "none" THEN Threw(props.error)
     ELSE ParseServerFields(props.fields)

\* Server responses given to parseServerBody, by their fields.  A ver token
\* is written with the versions it stands for: single numbers, ranges (one
\* of them empty) and tokens with two dashes.
VerTokens ==
  [one |-> [text |-> <<"1">>, versions |-> <<1>>, malformed |-> FALSE],
   threeToFive |-> [text |-> <<"3", "-", "5">>, versions |-> <<3, 4, 5>>,
                    malformed |-> FALSE],
   nine |-> [text |-> <<"9">>, versions |-> <<9>>, malformed |-> FALSE],
   tenToTwelve |-> [text |-> <<"1", "0", "-", "1", "2">>,
                    versions |-> <<10, 11, 12>>, malformed |-> FALSE],
   twoToOne |-> [text |-> <<"2", "-", "1">>, versions |-> <<>>,
                 malformed |-> FALSE],
   twoDashes |-> [text |-> <<"1", "-", "2", "-", "3">>, versions |-> <<>>,
                  malformed |-> TRUE]]
VerValues ==
  {<<VerTokens.one>>,
   <<VerTokens.one, VerTokens.threeToFive, VerTokens.nine>>,
   <<VerTokens.tenToTwelve>>,
   <<VerTokens.twoToOne, VerTokens.one>>,
   <<VerTokens.twoDashes>>,
   <<VerTokens.one, VerTokens.twoDashes, VerTokens.nine>>}
\* tif texts with the number they are the base-16 writing of.
TifValues ==
  {[text |-> <<"4", "1">>, value |-> 65],
   [text |-> <<"1", "C", "4">>, value |-> 452]}
\* ask values message~label1[;url1][~label2[;url2]], by their parts.
AskValues ==
  {a \in [askMessage : {Given(<<"G", "o", "?">>)},
          askButton1Label : {Given(<<"o", "k">>)},
          askButton1Url : {Absent, Given(<<"/", "y", "=", "1">>)},
          askButton2Label : {Absent, Given(<<"n", "o">>)},
          askButton2Url : {Absent, Given(<<"/", "n">>)}] :
     a.askButton2Url # Absent => a.askButton2Label # Absent}
ServerResponses ==
  [kind : {"response"},
   ver : {Absent} \cup {Given(v) : v \in VerValues},
   nut : {Absent, Given(<<"n", "2">>)},
   tif : {Absent} \cup {Given(v) : v \in TifValues},
   qry : {Absent, Given(<<"/", "q", "?", "n", "u", "t", "=", "n", "2">>)},
   ask : {Absent} \cup {Given(a) : a \in AskValues}]

VerText(tokens) == Join([i \in DOMAIN tokens |-> tokens[i].text], <<",">>)
AskText(a) ==
  ValueOf(a.askMessage) \o <<"~">> \o ValueOf(a.askButton1Label)
    \o (IF a.askButton1Url = Absent THEN <<>>
        ELSE <<";">> \o ValueOf(a.askButton1Url))
    \o (IF a.askButton2Label = Absent THEN <<>>
        ELSE <<"~">> \o ValueOf(a.askButton2Label))
    \o (IF a.askButton2Url = Absent THEN <<>>
        ELSE <<";">> \o ValueOf(a.askButton2Url))
\* The line name=value of a field that is there; no line otherwise.
FieldLine(name, value) ==
  IF value = Absent THEN <<>> ELSE <<name \o <<"=">> \o ValueOf(value)>>
\* The response as the server sends it: the lines joined with CRLF, with a
\* trailing CRLF, in base64url.
ResponseBody(r) ==
  Base64UrlEncode(
    Join(FieldLine(<<"v", "e", "r">>,
                   IF r.ver = Absent THEN Absent
                   ELSE Given(VerText(ValueOf(r.ver))))
           \o FieldLine(<<"n", "u", "t">>, r.nut)
           \o FieldLine(<<"t", "i", "f">>,
                        IF r.tif = Absent THEN Absent
                        ELSE Given(ValueOf(r.tif).text))
           \o FieldLine(<<"q", "r", "y">>, r.qry)
           \o FieldLine(<<"a", "s", "k">>,
                        IF r.ask = Absent THEN Absent
                        ELSE Given(AskText(ValueOf(r.ask)))),
         CRLF) \o CRLF)

\* One call of parseServerBody on a response body.
CallParseServerBody ==
  /\ call.op = "none"
  /\ call.origin.kind = "response"
  /\ call' = [call EXCEPT !.op = "parseServerBody",
                          !.output = ParseServerBody(call.input)]
  /\ UNCHANGED <<userTable, nutTable, proc>>

(***************************************************************************)
(* The client's request body: generatePostBody and its parser              *)
(***************************************************************************)
\* ed25519.MakeKeypair(seed): the two keys of a pair are told apart by their
\* first character and belong together by the seed.
MakeKeypair(seed) ==
  [publicKey |-> <<"k">> \o seed, privateKey |-> <<"s">> \o seed]

\* ed25519.Sign: a signature is known by the key that made it and the
\* message it was made over.
Ed25519Sign(message, privateKey) == [signer |-> privateKey, message |-> message]

\* Lines 187-199: the option tokens of the flags that are set, in the order
\* sqrlonly, hardlock, cps, suk.
OptionTokens(client) ==
  (IF client.useSqrlIdentityOnly THEN <<<<"s", "q", "r", "l", "o", "n", "l", "y">>>> ELSE <<>>)
    \o (IF client.hardLockSqrlUse THEN <<<<"h", "a", "r", "d", "l", "o", "c", "k">>>> ELSE <<>>)
    \o (IF client.clientProvidedSession THEN <<<<"c", "p", "s">>>> ELSE <<>>)
    \o (IF client.returnSessionUnlockKey THEN <<<<"s", "u", "k">>>> ELSE <<>>)

\* Lines 175-203: the client lines; tried is the index (from 0) of the
\* previous identity presented, if one is.
ClientLines(client, cmd, tried, separator) ==
  <<<<"v", "e", "r", "=", "1">>, <<"c", "m", "d", "=">> \o cmd,
    <<"i", "d", "k", "=">> \o Base64UrlEncode(client.primaryIdentityPublicKey)>>
    \o (IF tried = Absent THEN <<>>
        ELSE <<<<"p", "i", "d", "k", "=">> \o Base64UrlEncode(
                 client.previousIdentityPublicKeys[ValueOf(tried) + 1])>>)
    \o (IF OptionTokens(client) = <<>> THEN <<>>
        ELSE <<<<"o", "p", "t", "=">> \o Join(OptionTokens(client), separator)>>)

\* Lines 205-222: the POST fields for the encoded client and server texts.
RequestPostBody(client, clientText, serverText, tried) ==
  [client |-> clientText,
   server |-> serverText,
   ids |-> Ed25519Sign(clientText \o serverText,
                       client.primaryIdentityPrivateKey),
   pids |-> IF tried = Absent THEN Absent
            ELSE Given(Ed25519Sign(
                   clientText \o serverText,
                   client.previousIdentityPrivateKeys[ValueOf(tried) + 1]))]

\* generatePostBody presenting the first previous identity on every call.
PostBodyWithFirstPrevious(client, cmd, primaryIdentOnly, separator) ==
  LET tried == IF ~primaryIdentOnly /\ Len(client.previousIdentityPublicKeys) > 0
               THEN Given(0)
               ELSE Absent
  IN [result |->
        RequestPostBody(
          client,
          Base64UrlEncode(Join(ClientLines(client, cmd, tried, separator), CRLF)
                            \o CRLF),
          Base64UrlEncode(client.originalSqrlUrl),
          tried),
      client |-> IF tried = Absent THEN client
                 ELSE [client EXCEPT !.lastQueryPrevIdTried = ValueOf(tried)]]

\* Lines 172-223: the POST fields, and the client with the index of the
\* previous identity it has presented last.
PostBodyWith(client, cmd, primaryIdentOnly, separator) ==
  LET tried == IF ~primaryIdentOnly /\ Len(client.previousIdentityPublicKeys) > 0
               THEN Given((client.lastQueryPrevIdTried + 1)
                            % Len(client.previousIdentityPublicKeys))
               ELSE Absent
  IN [result |->
        RequestPostBody(
          client,
          Base64UrlEncode(Join(ClientLines(client, cmd, tried, separator), CRLF)
                            \o CRLF),
          Base64UrlEncode(client.originalSqrlUrl),
          tried),
      client |-> IF tried = Absent THEN client
                 ELSE [client EXCEPT !.lastQueryPrevIdTried = ValueOf(tried)]]

\* generatePostBody joining the options with a comma.
GeneratePostBodyCommaOptions(client, cmd, primaryIdentOnly) ==
  PostBodyWith(client, cmd, primaryIdentOnly, <<",">>)

GeneratePostBody(client, cmd, primaryIdentOnly) ==
  PostBodyWith(client, cmd, primaryIdentOnly, <<"~">>)

\* SqrlBodyParser.parseBodyFields: the client field is decoded into its
\* name=value pairs; ver, cmd and idk are required; opt is a list of option
\* tokens separated by '~'; pidk is the previous identity key when present.
MissingFieldError(name) == [error |-> "MissingFieldError", name |-> name]
ClientRequestInfoOf(fields, body) ==
  LET options == IF Property(fields, <<"o", "p", "t">>) = Absent THEN {}
                 ELSE Range(Split(ValueOf(Property(fields, <<"o", "p", "t">>)), <<"~">>))
  IN [sqrlCommand |-> ValueOf(Property(fields, <<"c", "m", "d">>)),
      primaryIdentityPublicKey |-> ValueOf(Property(fields, <<"i", "d", "k">>)),
      previousIdentityPublicKey |-> Property(fields, <<"p", "i", "d", "k">>),
      useSqrlIdentityOnly |-> <<"s", "q", "r", "l", "o", "n", "l", "y">> \in options,
      hardLockSqrlUse |-> <<"h", "a", "r", "d", "l", "o", "c", "k">> \in options,
      clientProvidedSession |-> <<"c", "p", "s">> \in options,
      returnSessionUnlockKey |-> <<"s", "u", "k">> \in options,
      server |-> body.server, ids |-> body.ids, pids |-> body.pids]
ParseClientFields(fields, body) ==
  IF Property(fields, <<"v", "e", "r">>) = Absent THEN Threw(MissingFieldError("ver"))
  ELSE IF Property(fields, <<"c", "m", "d">>) = Absent THEN Threw(MissingFieldError("cmd"))
  ELSE IF Property(fields, <<"i", "d", "k">>) = Absent THEN Threw(MissingFieldError("idk"))
  ELSE Returned(ClientRequestInfoOf(fields, body))
ParseBodyFields(body) ==
  LET props == ParseBase64CRLFSeparatedFields(body.client)
  IN IF props.error # "none" THEN Threw(props.error)
     ELSE ParseClientFields(props.fields, body)

\* new MockSQRLClient(sqrlUrl, numPreviousIdentities) (lines 124-142) with
\* its option flags set as a test sets them; the random seeds of its key
\* pairs are given.
MockSQRLClient(options, sqrlUrl, seed, previousSeeds) ==
  [useSqrlIdentityOnly |-> options.useSqrlIdentityOnly,
   hardLockSqrlUse |-> options.hardLockSqrlUse,
   clientProvidedSession |-> options.clientProvidedSession,
   returnSessionUnlockKey |-> options.returnSessionUnlockKey,
   originalSqrlUrl |-> sqrlUrl,
   primaryIdentityPublicKey |-> MakeKeypair(seed).publicKey,
   primaryIdentityPrivateKey |-> MakeKeypair(seed).privateKey,
   previousIdentityPublicKeys |->
     [i \in DOMAIN previousSeeds |-> MakeKeypair(previousSeeds[i]).publicKey],
   previousIdentityPrivateKeys |->
     [i \in DOMAIN previousSeeds |-> MakeKeypair(previousSeeds[i]).privateKey],
   lastQueryPrevIdTried |-> -1]

OptionFlags ==
  [useSqrlIdentityOnly : BOOLEAN, hardLockSqrlUse : BOOLEAN,
   clientProvidedSession : BOOLEAN, returnSessionUnlockKey : BOOLEAN]
LoginUrl ==
  <<"s", "q", "r", "l", ":", "/", "/", "f", "o", "o", ".", "c", "o", "m", "/", "l", "o", "g", "i", "n", "?", "n", "u", "t", "=", "1", "2", "3", "4">>

\* The clients of one generatePostBody call, and the arguments of the call.
MockSQRLClients ==
  {MockSQRLClient(options, LoginUrl, <<"A">>, previousSeeds) :
     options \in OptionFlags, previousSeeds \in {<<>>, <<<<"B">>>>}}
SqrlCommands ==
  {<<"q", "u", "e", "r", "y">>, <<"i", "d", "e", "n", "t">>, <<"d", "i", "s", "a", "b", "l", "e">>, <<"e", "n", "a", "b", "l", "e">>, <<"r", "e", "m", "o", "v", "e">>}
ClientCalls ==
  [kind : {"client"}, client : MockSQRLClients, cmd : SqrlCommands,
   primaryIdentOnly : BOOLEAN]

\* One call of generatePostBody.
CallGeneratePostBody ==
  /\ call.op = "none"
  /\ call.origin.kind = "client"
  /\ call' = [call EXCEPT
       !.op = "generatePostBody",
       !.output = GeneratePostBody(call.origin.client, call.origin.cmd,
                                   call.origin.primaryIdentOnly)]
  /\ UNCHANGED <<userTable, nutTable, proc>>

\* parseBodyFields on the POST fields that generatePostBody returned (lines
\* 370-372).
CallParseBodyFields ==
  /\ call.op = "generatePostBody"
  /\ call' = [call EXCEPT
       !.op = "parseBodyFields",
       !.input = call.output.result,
       !.made = "generated",
       !.output = ParseBodyFields(call.output.result)]
  /\ UNCHANGED <<userTable, nutTable, proc>>

\* A client over several generatePostBody calls: the client as the calls so
\* far have left it, the number of calls, and the number of those made with
\* primaryIdentOnly = false.
SessionClients ==
  {MockSQRLClient(options, LoginUrl, <<"A">>, previousSeeds) :
     options \in {o \in OptionFlags :
                    ~o.hardLockSqrlUse /\ ~o.clientProvidedSession
                      /\ o.useSqrlIdentityOnly = o.returnSessionUnlockKey},
     previousSeeds \in {<<>>, <<<<"B">>>>, <<<<"B">>, <<"C">>>>,
                        <<<<"B">>, <<"C">>, <<"D">>>>}}
SessionCommands == {<<"q", "u", "e", "r", "y">>, <<"i", "d", "e", "n", "t">>}
Session(client) ==
  [kind |-> "session", client |-> client, calls |-> 0, presented |-> 0]

\* The next generatePostBody call on the client, at most MaxCalls of them.
ClientGeneratesPostBody ==
  /\ call.origin.kind = "session"
  /\ call.origin.calls < MaxCalls
  /\ \E cmd \in SessionCommands, primaryIdentOnly \in BOOLEAN :
       LET generated == GeneratePostBody(call.origin.client, cmd, primaryIdentOnly)
       IN call' = [op |-> "generatePostBody",
                   input |-> [client |-> call.origin.client, cmd |-> cmd,
                              primaryIdentOnly |-> primaryIdentOnly],
                   made |-> "given",
                   output |-> generated,
                   origin |-> [call.origin EXCEPT
                     !.client = generated.client,
                     !.calls = @ + 1,
                     !.presented = IF primaryIdentOnly THEN @ ELSE @ + 1]]
  /\ UNCHANGED <<userTable, nutTable, proc>>

(***************************************************************************)
(* Specifications                                                          *)
(***************************************************************************)
Ident(p) ==
  \/ \E clientRequestInfo \in IdentRequests, nutInfo \in nutTable :
        IdentFind(p, clientRequestInfo, nutInfo)
  \/ IdentUpdate(p)
  \/ IdentInsert(p)
  \/ IdentGetOriginal(p)
  \/ IdentMarkNut(p)

Poll(p) ==
  \/ \E nut \in Nuts : PollNut(p, nut)
  \/ PollFindUser(p)

Handle(p) ==
  \/ \E clientRequestInfo \in QueryRequests : Query(p, clientRequestInfo)
  \/ \E clientRequestInfo \in OtherRequests("disable") : Disable(p, clientRequestInfo)
  \/ \E clientRequestInfo \in OtherRequests("enable") : Enable(p, clientRequestInfo)
  \/ \E clientRequestInfo \in OtherRequests("remove") : Remove(p, clientRequestInfo)
  \/ Ident(p)
  \/ Poll(p)
  \/ \E nut \in Nuts : GetNutInfo(p, nut)

Issue == \E nut \in Nuts, originalLoginNut \in OriginalNuts \cup {NoNut} :
           IssueNut(nut, originalLoginNut)

\* Requests are served one at a time, each to completion.
Next == Issue \/ \E p \in SeqProcs : Handle(p)

Spec == Init /\ [][Next]_vars

\* The store after one visit of the /login page.
InitConcurrent ==
  /\ userTable = {}
  /\ nutTable = {NutDBRecord("n1", NoNut)}
  /\ proc = [p \in Procs |-> IdleProc]
  /\ call = NoCall

\* Ident requests of two processes in flight at the same time, interleaved at
\* their storage calls.
NextConcurrent ==
  \E p \in Procs :
     \/ \E clientRequestInfo \in IdentRequests, nutInfo \in nutTable :
          IdentFind(p, clientRequestInfo, nutInfo)
     \/ IdentUpdate(p)
     \/ IdentInsert(p)
     \/ IdentMarkNut(p)

SpecConcurrent == InitConcurrent /\ [][NextConcurrent]_vars

\* Ident requests only, served one at a time, with room for MaxRotations
\* previous keys.
NextRotation ==
  \E p \in SeqProcs :
     \/ \E clientRequestInfo \in IdentRequests, nutInfo \in nutTable :
          IdentFind(p, clientRequestInfo, nutInfo)
     \/ IdentUpdateWithin(p, MaxRotations)
     \/ IdentInsert(p)
     \/ IdentMarkNut(p)

SpecRotation == InitConcurrent /\ [][NextRotation]_vars

\* The store after a visit of the /login page (n1) and one round trip of the
\* client (n2).
InitStorageFailure ==
  /\ userTable = {}
  /\ nutTable = {NutDBRecord("n1", NoNut), NutDBRecord("n2", "n1")}
  /\ proc = [p \in Procs |-> IdleProc]
  /\ call = NoCall

\* Ident requests served one at a time, any storage call of which may reject.
NextStorageFailure ==
  \E p \in SeqProcs :
     \/ Ident(p)
     \/ IdentStorageFails(p)

SpecStorageFailure == InitStorageFailure /\ [][NextStorageFailure]_vars

\* Requests with any signatures, served one at a time through the driver.
NextDriver ==
  \E p \in SeqProcs :
     \/ \E body \in PostBodies, nutInfo \in nutTable : Drive(p, body, nutInfo)
     \/ IdentUpdate(p)
     \/ IdentInsert(p)
     \/ IdentMarkNut(p)

SpecDriver == InitConcurrent /\ [][NextDriver]_vars

\* The URL functions alone: one URL or one set of create arguments is drawn,
\* the function is applied, and its result is canonicalized.
InitUrl ==
  /\ userTable = {}
  /\ nutTable = {}
  /\ proc = [p \in Procs |-> IdleProc]
  /\ call \in {[NoCall EXCEPT !.input = UrlText(u), !.origin = u] :
                 u \in SqrlUrls}
              \cup {[NoCall EXCEPT !.origin = a] : a \in CreateArguments}
              \cup {[NoCall EXCEPT !.origin = a] : a \in FactoryCalls}

NextUrl ==
  \/ CallCanonicalize
  \/ CallGenerateServerContactUrl
  \/ CallCreate
  \/ CallInstanceCreate
  \/ CallCanonicalizeOutput

SpecUrl == InitUrl /\ [][NextUrl]_vars

\* The wire codec alone: one server response body is drawn and parsed, or
\* one client is drawn, generates a request body, and the body is parsed.
InitCodec ==
  /\ userTable = {}
  /\ nutTable = {}
  /\ proc = [p \in Procs |-> IdleProc]
  /\ call \in {[NoCall EXCEPT !.input = ResponseBody(r), !.origin = r] :
                 r \in ServerResponses}
              \cup {[NoCall EXCEPT !.origin = c] : c \in ClientCalls}

NextCodec == CallParseServerBody \/ CallGeneratePostBody \/ CallParseBodyFields

SpecCodec == InitCodec /\ [][NextCodec]_vars

\* The ident requests of a client, served one at a time, and the polls of
\* two browser windows, which may come between the storage calls of an
\* ident: the answer to the last poll of a window stays with it while the
\* other requests are served.
NextPoll ==
  \/ \E p \in SeqProcs : Ident(p)
  \/ \E p \in Procs : Poll(p)

SpecPoll == InitStorageFailure /\ [][NextPoll]_vars

\* One client making generatePostBody calls one after another.
InitClient ==
  /\ userTable = {}
  /\ nutTable = {}
  /\ proc = [p \in Procs |-> IdleProc]
  /\ call \in {[NoCall EXCEPT !.origin = Session(c)] : c \in SessionClients}

NextClient == ClientGeneratesPostBody

SpecClient == InitClient /\ [][NextClient]_vars

(***************************************************************************)
(* Properties                                                              *)
(***************************************************************************)
\* The nut record an ident resolves to: the original when the passed record
\* names one, the passed record otherwise.
ResolvedNut(nutInfo) ==
  IF nutInfo.originalLoginNut # NoNut THEN nutInfo.originalLoginNut ELSE nutInfo.nut

PrimaryKeys(table) == {d.sqrlPrimaryIdentityPublicKey : d \in table}

WithPrimaryKey(table, keys) == {d \in table : d.sqrlPrimaryIdentityPublicKey \in keys}

\* C1: when an ident completes the login of its resolved nut record, that
\* record is logged in with the primary key of the identity the request
\* resulted in (the request's current key, for creation, current-key match
\* and rotation alike), an identity stored under that key, so that a poll of
\* the nut then reports success.
C1_IdentMarksNutWithIdentityKey ==
  [][\A p \in Procs :
       (proc[p].pc = "markNut" /\ proc'[p].pc = "done") =>
          LET record == GetNutRecord(nutTable', ResolvedNut(proc[p].nutInfo))
              key == proc[p].clientRequestInfo.primaryIdentityPublicKey
          IN /\ record.loggedIn
             /\ record.clientPrimaryIdentityPublicKey = key
             /\ key \in PrimaryKeys(userTable')
             /\ ~PollPending(record)]_vars

\* C2: with an identity stored under primary key A and none under B, an
\* ident presenting current key B and previous key A returns PreviousIDMatch
\* and leaves exactly one identity under A or B: under B, its previous keys
\* the old list with A appended.
C2_RotationLeavesOneIdentity ==
  [][\A p \in Procs :
       (proc[p].pc = "update" /\ proc'[p] # proc[p]) =>
          LET A == proc[p].clientRequestInfo.previousIdentityPublicKey
              B == proc[p].clientRequestInfo.primaryIdentityPublicKey
              old == FindOneUser(userTable, {A})
          IN (old # NoDoc /\ B \notin PrimaryKeys(userTable)) =>
               /\ proc'[p].pc # "failed"
               /\ BitAnd(proc'[p].authInfo.tifValues, PreviousIDMatch) # 0
               /\ A \notin PrimaryKeys(userTable')
               /\ Cardinality(WithPrimaryKey(userTable', {A, B})) = 1
               /\ \A d \in WithPrimaryKey(userTable', {A, B}) :
                    /\ d.sqrlPrimaryIdentityPublicKey = B
                    /\ d.sqrlPreviousIdentityPublicKeys =
                         Append(old.sqrlPreviousIdentityPublicKeys, A)]_vars

\* C3: an ident whose keys match no stored identity adds exactly one
\* identity, with the request's primary key, unlock keys and option flags,
\* and returns tifValues 0; a query with the same keys before it returns
\* tifValues 0, and a query changes no table.
C3_IdentCreatesIdentity ==
  [][\A p \in Procs :
       /\ (proc[p].pc = "insert" /\ proc'[p] # proc[p]) =>
            LET req == proc[p].clientRequestInfo
                created == userTable' \ userTable
            IN /\ FindOneUser(userTable, KeyMatches(req)) = NoDoc
               /\ QueryResult(userTable, [req EXCEPT !.sqrlCommand = "query"]).tifValues = 0
               /\ userTable \subseteq userTable'
               /\ Cardinality(created) = 1
               /\ \A d \in created :
                    /\ d.sqrlPrimaryIdentityPublicKey = req.primaryIdentityPublicKey
                    /\ d.sqrlServerUnlockPublicKey = req.serverUnlockPublicKey
                    /\ d.sqrlServerVerifyUnlockPublicKey = req.serverVerifyUnlockPublicKey
                    /\ d.sqrlUseSqrlIdentityOnly = req.useSqrlIdentityOnly
                    /\ d.sqrlHardLockSqrlUse = req.hardLockSqrlUse
                    /\ proc'[p].authInfo.user = DocValue(d)
               /\ proc'[p].authInfo.tifValues = 0
       /\ (proc'[p].handler = "query" /\ proc'[p] # proc[p]) =>
            userTable' = userTable /\ nutTable' = nutTable]_vars

\* An ident has returned after creating an identity, which is stored.
C3_Witness ==
  \E p \in Procs :
     /\ proc[p].pc = "done" /\ proc[p].handler = "ident"
     /\ proc[p].authInfo.tifValues = 0
     /\ proc[p].authInfo.user.kind = "doc"
     /\ proc[p].authInfo.user.doc \in userTable
     /\ proc[p].authInfo.user.doc.sqrlServerUnlockPublicKey # NoKey

\* C4: for every request and every store content the identity lookup sets
\* exactly one of CurrentIDMatch and PreviousIDMatch when it returns a
\* record, the bit naming the request key that is the record's primary key,
\* and sets neither when it returns none.
C4_LookupSetsOneMatchBit ==
  \A idk \in Keys, pidk \in Keys \cup {NoKey} :
     LET req == [NoRequest EXCEPT !.sqrlCommand = "query",
                                  !.primaryIdentityPublicKey = idk,
                                  !.previousIdentityPublicKey = pidk]
         result == FindUserByEitherKey(userTable, req)
         current == BitAnd(result.tifValues, CurrentIDMatch) # 0
         previous == BitAnd(result.tifValues, PreviousIDMatch) # 0
     IN IF result.user.kind = "doc"
        THEN /\ result.user.doc \in userTable
             /\ result.tifValues \in {CurrentIDMatch, PreviousIDMatch}
             /\ current # previous
             /\ current => result.user.doc.sqrlPrimaryIdentityPublicKey
                             = req.primaryIdentityPublicKey
             /\ previous => /\ req.previousIdentityPublicKey # NoKey
                            /\ result.user.doc.sqrlPrimaryIdentityPublicKey
                                 = req.previousIdentityPublicKey
        ELSE /\ result.user = NullValue
             /\ result.tifValues = 0
             /\ WithPrimaryKey(userTable, KeyMatches(req)) = {}

\* A query has returned a record found by the request's previous key.
C4_Witness ==
  \E p \in Procs :
     /\ proc[p].pc = "done" /\ proc[p].handler = "query"
     /\ proc[p].authInfo.tifValues = PreviousIDMatch
     /\ proc[p].authInfo.user.doc \in userTable

\* C5: no two stored identity records have the same primary key.
C5_UniquePrimaryKeys ==
  \A d, e \in userTable :
     d.sqrlPrimaryIdentityPublicKey = e.sqrlPrimaryIdentityPublicKey => d = e

\* C6: two ident requests in flight at the same time end as one of their two
\* serial orders would; in particular they never both create an identity
\* for the same key (served one after the other, the second finds the record
\* of the first).
C6_ConcurrentIdentsSerializable ==
  \A p, q \in Procs :
     (/\ p # q
      /\ proc[p].pc = "done" /\ proc[p].handler = "ident"
      /\ proc[q].pc = "done" /\ proc[q].handler = "ident"
      /\ proc[p].authInfo.user.kind = "doc" /\ proc[p].authInfo.tifValues = 0
      /\ proc[q].authInfo.user.kind = "doc" /\ proc[q].authInfo.tifValues = 0
      /\ proc[p].authInfo.user.doc \in userTable
      /\ proc[q].authInfo.user.doc \in userTable)
     => proc[p].authInfo.user.doc.sqrlPrimaryIdentityPublicKey
          # proc[q].authInfo.user.doc.sqrlPrimaryIdentityPublicKey

\* C7: once a nut record has loggedIn = TRUE, no later request changes its
\* loggedIn or its clientPrimaryIdentityPublicKey.
C7_LoginCompletedAtMostOnce ==
  [][\A r \in nutTable : r.loggedIn => r \in nutTable']_vars

\* C8: an ident whose passed nut record names an original nut that is
\* stored completes the login on the original's record and leaves the passed
\* record not logged in; one whose passed record names no original completes
\* the login on the passed record; no other nut record changes.
C8_LoginCompletedOnOriginalNut ==
  [][\A p \in Procs :
       LET passed == proc[p].nutInfo
           original == GetNutRecord(nutTable, passed.originalLoginNut)
       IN /\ (proc[p].pc = "getOriginal" /\ proc'[p] # proc[p]
                /\ original # NoNutRecord) =>
               /\ proc'[p].pc = "markNut"
               /\ proc'[p].originalNutRecord = original
               /\ nutTable' = nutTable
          /\ (proc[p].pc = "markNut" /\ proc'[p] # proc[p]) =>
               /\ proc'[p].pc = "done"
               /\ GetNutRecord(nutTable', ResolvedNut(passed)).loggedIn
               /\ \A r \in nutTable : r.nut # ResolvedNut(passed) => r \in nutTable'
               /\ passed.originalLoginNut # NoNut =>
                    /\ GetNutRecord(nutTable', passed.nut) # NoNutRecord
                    /\ ~GetNutRecord(nutTable', passed.nut).loggedIn]_vars

\* An ident passed a later nut has returned: the original is logged in, the
\* passed record is not.
C8_Witness ==
  \E p \in Procs :
     /\ proc[p].pc = "done" /\ proc[p].handler = "ident"
     /\ proc[p].nutInfo.originalLoginNut # NoNut
     /\ proc[p].originalNutRecord.nut = proc[p].nutInfo.originalLoginNut
     /\ GetNutRecord(nutTable, proc[p].nutInfo.originalLoginNut).loggedIn
     /\ ~GetNutRecord(nutTable, proc[p].nutInfo.nut).loggedIn

\* C9: an ident whose passed nut record names an original nut that is not
\* stored returns without error and changes no nut record; a poll of the
\* original nut then still finds no record or no completed login.
C9_MissingOriginalNutIsNoOp ==
  [][\A p \in Procs :
       LET original == proc[p].nutInfo.originalLoginNut
       IN (/\ proc[p].pc = "getOriginal" /\ proc'[p] # proc[p]
           /\ GetNutRecord(nutTable, original) = NoNutRecord) =>
            /\ proc'[p].pc = "done"
            /\ proc'[p].authInfo = proc[p].authInfo
            /\ nutTable' = nutTable
            /\ \/ GetNutRecord(nutTable', original) = NoNutRecord
               \/ PollPending(GetNutRecord(nutTable', original))]_vars

\* An ident has returned without finding the original nut of its record.
C9_Witness ==
  \E p \in Procs :
     /\ proc[p].pc = "done" /\ proc[p].handler = "ident"
     /\ proc[p].nutInfo.originalLoginNut # NoNut
     /\ proc[p].originalNutRecord = NoNutRecord
     /\ GetNutRecord(nutTable, proc[p].nutInfo.originalLoginNut) = NoNutRecord
     /\ proc[p].nutInfo \in nutTable

\* C10: a poll answers by the state of the nut record it read: not found
\* (404) for no record, pending for loggedIn = FALSE, and success with the
\* associated identity for loggedIn = TRUE.
C10_PollAnswersByNutState ==
  \A p \in Procs :
     (proc[p].pc = "done" /\ proc[p].handler = "poll") =>
        LET nutRecord == proc[p].nutInfo
            answer == proc[p].pollResult
        IN /\ nutRecord = NoNutRecord => answer.statusCode = 404
           /\ (nutRecord # NoNutRecord /\ ~nutRecord.loggedIn) =>
                answer.statusCode = 200 /\ ~answer.loggedIn
           /\ (nutRecord # NoNutRecord /\ nutRecord.loggedIn) =>
                /\ answer.statusCode = 200
                /\ answer.loggedIn
                /\ answer.user # NoDoc
                /\ answer.user.sqrlPrimaryIdentityPublicKey
                     = nutRecord.clientPrimaryIdentityPublicKey

\* C11: a nut looked up directly after it was issued has loggedIn = FALSE and
\* no client key; looked up after an ident completed its login it has
\* loggedIn = TRUE and the primary key of the completing identity (the
\* request's current key); a lookup returns the stored record, or none when
\* no record of the nut is stored, and changes no table.
C11_NutLookupFollowsLifecycle ==
  [][/\ \A nut \in Nuts :
          (GetNutRecord(nutTable, nut) = NoNutRecord
             /\ GetNutRecord(nutTable', nut) # NoNutRecord) =>
            /\ ~GetNutRecord(nutTable', nut).loggedIn
            /\ GetNutRecord(nutTable', nut).clientPrimaryIdentityPublicKey = NoKey
     /\ \A p \in Procs :
          /\ (proc[p].pc = "markNut" /\ proc'[p].pc = "done") =>
               LET found == GetNutRecord(nutTable', ResolvedNut(proc[p].nutInfo))
               IN /\ found.loggedIn
                  /\ found.clientPrimaryIdentityPublicKey
                       = proc[p].clientRequestInfo.primaryIdentityPublicKey
          /\ (proc'[p].handler = "getNutInfo" /\ proc'[p] # proc[p]) =>
               LET nut == proc'[p].originalNutRecord.nut
               IN /\ userTable' = userTable /\ nutTable' = nutTable
                  /\ IF \E r \in nutTable : r.nut = nut
                     THEN proc'[p].nutInfo \in nutTable /\ proc'[p].nutInfo.nut = nut
                     ELSE proc'[p].nutInfo = NoNutRecord]_vars

\* C12: a query changes neither the identity table nor the nut table.
C12_QueryIsReadOnly ==
  [][\A p \in Procs :
       (proc'[p].handler = "query" /\ proc'[p] # proc[p]) =>
          /\ proc'[p].pc = "done"
          /\ userTable' = userTable
          /\ nutTable' = nutTable]_vars

\* A query has found an identity by the current key, with nuts stored.
C12_Witness ==
  \E p \in Procs :
     /\ proc[p].pc = "done" /\ proc[p].handler = "query"
     /\ proc[p].clientRequestInfo.sqrlCommand = "query"
     /\ proc[p].authInfo.tifValues = CurrentIDMatch
     /\ proc[p].authInfo.user.doc \in userTable
     /\ nutTable # {}

C14_CurrentMatchKeepsIdentities ==
  [][\A p \in Procs :
       (/\ proc'[p].handler = "ident"
        /\ proc'[p] # proc[p]
        /\ BitAnd(proc'[p].authInfo.tifValues, CurrentIDMatch) # 0)
       => userTable' = userTable]_vars

\* An ident has matched by the current key a request that also presents a
\* previous key and option flags other than the stored ones, and is past its
\* identity steps.
C14_Witness ==
  \E p \in Procs :
     /\ proc[p].pc = "markNut" /\ proc[p].handler = "ident"
     /\ proc[p].authInfo.tifValues = CurrentIDMatch
     /\ proc[p].authInfo.user.doc \in userTable
     /\ proc[p].clientRequestInfo.previousIdentityPublicKey # NoKey
     /\ proc[p].authInfo.user.doc.sqrlHardLockSqrlUse
          # proc[p].clientRequestInfo.hardLockSqrlUse

\* C15: disable, enable and remove return without failure and change no
\* table, and no step of any operation deletes an identity record.
C15_NoOpCommandsAndNoDeletion ==
  [][/\ \A p \in Procs :
          (proc'[p].handler \in {"disable", "enable", "remove"}
             /\ proc'[p] # proc[p]) =>
            /\ proc'[p].pc = "done"
            /\ proc'[p].authInfo.tifValues = 0
            /\ userTable' = userTable
            /\ nutTable' = nutTable
     /\ \A d \in userTable : \E e \in userTable' : e.id = d.id]_vars

\* A remove for the key of a stored identity has returned; the identity is
\* still stored.
C15_Witness ==
  \E p \in Procs :
     /\ proc[p].pc = "done" /\ proc[p].handler = "remove"
     /\ proc[p].clientRequestInfo.primaryIdentityPublicKey \in PrimaryKeys(userTable)

\* C16: the previous-key list of every identity has at most 4 entries, and a
\* step that changes the list of an identity only appends to it.
C16_PreviousKeysCappedAppendOnly ==
  [][\A d \in userTable' :
       /\ Len(d.sqrlPreviousIdentityPublicKeys) <= 4
       /\ \A e \in userTable :
            e.id = d.id =>
              /\ Len(e.sqrlPreviousIdentityPublicKeys)
                   <= Len(d.sqrlPreviousIdentityPublicKeys)
              /\ SubSeq(d.sqrlPreviousIdentityPublicKeys, 1,
                        Len(e.sqrlPreviousIdentityPublicKeys))
                   = e.sqrlPreviousIdentityPublicKeys]_vars

\* C17: when an ident call has failed, the identity table and the nut table
\* are as the call found them.
C17_IdentAllOrNothing ==
  \A p \in Procs :
     (proc[p].pc = "failed" /\ proc[p].handler = "ident") =>
        /\ userTable = proc[p].before.userTable
        /\ nutTable = proc[p].before.nutTable

\* C18: a request of which neither the primary-key signature nor the
\* previous-key signature verifies is answered at once with CommandFailed and
\* ClientFailure set, and no step taken for it changes the identity table or
\* the nut table.
C18_UnverifiedRequestChangesNothing ==
  [][\A p \in Procs :
       LET body == proc'[p].clientRequestInfo
       IN (/\ proc'[p] # proc[p]
           /\ body.sqrlCommand # "none"
           /\ ~VerifyPrimary(body)
           /\ ~VerifyPrevious(body)) =>
            /\ proc'[p].pc = "done"
            /\ BitAnd(proc'[p].authInfo.tifValues, CommandFailed) # 0
            /\ BitAnd(proc'[p].authInfo.tifValues, ClientFailure) # 0
            /\ userTable' = userTable
            /\ nutTable' = nutTable]_vars

\* An ident for the key of a stored identity, with signatures made by another
\* key, has been answered; the identity is stored as before.
C18_Witness ==
  \E p \in Procs :
     /\ proc[p].pc = "done" /\ proc[p].handler = "ident"
     /\ proc[p].clientRequestInfo.sqrlCommand = "ident"
     /\ proc[p].clientRequestInfo.primaryIdentityPublicKey \in PrimaryKeys(userTable)
     /\ proc[p].clientRequestInfo.previousIdentityPublicKey # NoKey
     /\ proc[p].clientRequestInfo.ids.signer \in Keys
     /\ proc[p].clientRequestInfo.pids.signer \in Keys
     /\ ~VerifyPrimary(proc[p].clientRequestInfo)
     /\ ~VerifyPrevious(proc[p].clientRequestInfo)
     /\ proc[p].authInfo.tifValues = BitOr(CommandFailed, ClientFailure)

\* C19: canonicalizeSqrlUrl returns the scheme, host and path+query of its
\* input with scheme and host in lower case, without userinfo, port (and
\* fragment), and with path and query in the letter case they were given in;
\* a URL without a path has no path component in the result.
C19_CanonicalFormOfUrl ==
  (call.op = "canonicalizeSqrlUrl" /\ call.made = "given") =>
    LET u == call.origin
    IN /\ call.output = ToLowerCase(u.scheme) \o <<":", "/", "/">>
                          \o ToLowerCase(u.host) \o u.pathQuery
       /\ u.pathQuery = <<>> =>
            call.output = ToLowerCase(u.scheme) \o <<":", "/", "/">>
                            \o ToLowerCase(u.host)

\* SQrL://u:P@FOO.com:80/Path#F has been canonicalized to sqrl://foo.com/Path.
C19_Witness ==
  /\ call.op = "canonicalizeSqrlUrl"
  /\ call.made = "given"
  /\ call.input = <<"S", "Q", "r", "L", ":", "/", "/", "u", ":", "P", "@",
                    "F", "O", "O", ".", "c", "o", "m", ":", "8", "0",
                    "/", "P", "a", "t", "h", "#", "F">>
  /\ call.output = <<"s", "q", "r", "l", ":", "/", "/",
                     "f", "o", "o", ".", "c", "o", "m",
                     "/", "P", "a", "t", "h">>

\* A URL that is in canonical form already: lower-case scheme and host, no
\* userinfo, port or fragment.
IsCanonicalUrl(u) ==
  /\ u.scheme = ToLowerCase(u.scheme)
  /\ u.host = ToLowerCase(u.host)
  /\ u.userinfo = <<>>
  /\ u.port = <<>>
  /\ u.fragment = <<>>

\* The path of a created URL: the given path with a '/' in front of it when
\* it is not empty and lacks one, and without one trailing '?'.
NormalizedPath(pathString) ==
  LET given == IF pathString = Absent THEN <<>> ELSE ValueOf(pathString)
      rooted == IF given # <<>> /\ Head(given) # "/"
                THEN <<"/">> \o given ELSE given
  IN IF rooted # <<>> /\ rooted[Len(rooted)] = "?"
     THEN SubSeq(rooted, 1, Len(rooted) - 1) ELSE rooted

\* The URL that create is asked for, by its parts, when called with secure,
\* domain, nut and path only.
OriginalUrl(a) ==
  [kind |-> "url",
   scheme |-> IF a.secure THEN <<"s", "q", "r", "l">> ELSE <<"q", "r", "l">>,
   userinfo |-> <<>>, host |-> a.domain, port |-> <<>>,
   pathQuery |-> NormalizedPath(a.pathString)
                   \o <<"?", "n", "u", "t", "=">> \o a.serverNut,
   fragment |-> <<>>]

C22_CreateBuildsUrl ==
  /\ call.op = "create" =>
       LET expected == UrlText(OriginalUrl(call.origin))
       IN /\ Len(call.output) >= Len(expected)
          /\ SubSeq(call.output, 1, Len(expected)) = expected
          /\ Len(call.output) > Len(expected) =>
               call.output[Len(expected) + 1] = "&"
  /\ call.op = "instanceCreate" =>
       LET c == call.origin
           path == IF c.pathString \in {Absent, Given(<<>>)}
                   THEN c.factory.pathString ELSE c.pathString
       IN call.output =
            SqrlUrlFactoryCreate(c.factory.secure, c.factory.domain,
                                 c.serverNut, path, c.domainExtension,
                                 c.factory.serverFriendlyName)

\* A factory configured for qrl, foo.com, path c? and friendly name Hi was
\* called with an empty path and has returned qrl://foo.com/c?nut=n1&sfn=SGk.
C22_Witness ==
  /\ call.op = "instanceCreate"
  /\ call.origin.factory.pathString = Given(<<"c", "?">>)
  /\ call.origin.pathString = Given(<<>>)
  /\ call.origin.domainExtension = Absent
  /\ call.output = <<"q", "r", "l", ":", "/", "/",
                     "f", "o", "o", ".", "c", "o", "m", "/", "c",
                     "?", "n", "u", "t", "=", "n", "1",
                     "&", "s", "f", "n", "=", "S", "G", "k">>

\* Where the x= parameter starts in a created URL; 0 when it has none.
XParameterAt(text) ==
  IF \E i \in 1..(Len(text) - 2) : SubSeq(text, i, i + 2) = <<"&", "x", "=">>
  THEN CHOOSE i \in 1..(Len(text) - 2) :
         SubSeq(text, i, i + 2) = <<"&", "x", "=">>
  ELSE 0
\* The value of a parameter that starts at position at, name included: what
\* follows its three characters, up to the next & or the end.
ParameterValue(text, at) ==
  LET after == From(text, at + 3)
      next == IndexOf(after, {"&"})
  IN IF next = 0 THEN after ELSE SubSeq(after, 1, next - 1)

\* C23: the x= value is the domainExtension clamped to 0..length of the
\* normalized path; &x=<n> is in the URL exactly when the clamped value is
\* greater than 0: never for a zero, negative or absent domainExtension or
\* for an empty path.
C23_DomainExtensionClamped ==
  call.op = "create" =>
    LET a == call.origin
        length == Len(NormalizedPath(a.pathString))
        clamped == IF a.domainExtension = Absent \/ ValueOf(a.domainExtension) < 0
                   THEN 0
                   ELSE Min(ValueOf(a.domainExtension), length)
        at == XParameterAt(call.output)
    IN /\ at # 0 <=> clamped > 0
       /\ at # 0 => ParameterValue(call.output, at) = NumberToText(clamped)
       /\ (a.domainExtension \in {Absent, Given(0), Given(-1)} \/ length = 0) =>
            at = 0

\* The URL created for path /a? and domain extension 12 carries x=2.
C23_Witness ==
  /\ call.op = "create"
  /\ call.origin.pathString = Given(<<"/", "a", "?">>)
  /\ call.origin.domainExtension = Given(12)
  /\ XParameterAt(call.output) # 0
  /\ ParameterValue(call.output, XParameterAt(call.output)) = <<"2">>

\* The versions a ver value stands for, in the order written.
RECURSIVE ExpectedVersions(_)
ExpectedVersions(tokens) ==
  IF tokens = <<>> THEN <<>>
  ELSE Head(tokens).versions \o ExpectedVersions(Tail(tokens))

\* C24: parseServerBody expands the ver value, a comma-separated list of
\* single integers and lo-hi inclusive ranges, into the flat list of the
\* integers in the order written, and fails with the version error when a
\* token has more than one dash.
C24_VersionRangesExpanded ==
  (call.op = "parseServerBody" /\ call.origin.ver # Absent) =>
    LET tokens == ValueOf(call.origin.ver)
        r == call.origin
    IN /\ (\E i \in DOMAIN tokens : tokens[i].malformed) =>
            call.output.threw = VersionError
       /\ call.output.threw = "none" =>
            call.output.value.supportedProtocolVersions = ExpectedVersions(tokens)
       /\ (/\ \A i \in DOMAIN tokens : ~tokens[i].malformed
           /\ r.nut # Absent /\ r.tif # Absent /\ r.qry # Absent) =>
            call.output.threw = "none"

\* ver=1,3-5,9 has been expanded to 1, 3, 4, 5, 9.
C24_Witness ==
  /\ call.op = "parseServerBody"
  /\ call.origin.ver # Absent
  /\ VerText(ValueOf(call.origin.ver)) = <<"1", ",", "3", "-", "5", ",", "9">>
  /\ call.output.threw = "none"
  /\ call.output.value.supportedProtocolVersions = <<1, 3, 4, 5, 9>>

\* The required fields a response lacks.
MissingFields(r) ==
  {name \in {"nut", "tif", "qry"} :
     \/ name = "nut" /\ r.nut = Absent
     \/ name = "tif" /\ r.tif = Absent
     \/ name = "qry" /\ r.qry = Absent}

\* C25: parseServerBody fails with an error naming the missing field whenever
\* the decoded response lacks nut, tif or qry, and returns a
\* ServerResponseInfo only when all three are present; tifValues is then the
\* tif text read as a base-16 number.
C25_MissingFieldNamed ==
  call.op = "parseServerBody" =>
    LET r == call.origin
    IN /\ MissingFields(r) # {} =>
            \E name \in MissingFields(r) : call.output.threw = MissingError(name)
       /\ call.output.threw = "none" =>
            /\ MissingFields(r) = {}
            /\ call.output.value.tifValues = ValueOf(r.tif).value

\* The five ask fields of a ServerResponseInfo.
AskFields(info) ==
  [askMessage |-> info.askMessage,
   askButton1Label |-> info.askButton1Label,
   askButton1Url |-> info.askButton1Url,
   askButton2Label |-> info.askButton2Label,
   askButton2Url |-> info.askButton2Url]
\* A response that parseServerBody accepts as far as ver, nut, tif and qry
\* go.
WellFormedResponse(r) ==
  /\ r.ver # Absent
  /\ \A i \in DOMAIN ValueOf(r.ver) : ~ValueOf(r.ver)[i].malformed
  /\ MissingFields(r) = {}

\* C26: for every ask value message~label1[;url1][~label2[;url2]]
\* parseServerBody returns the message, the label of button 1 with its URL
\* when given, and label and URL of button 2 only when given; a missing
\* second button or URL makes nothing fail.
C26_AskParsed ==
  (call.op = "parseServerBody" /\ WellFormedResponse(call.origin)) =>
    /\ call.output.threw = "none"
    /\ AskFields(call.output.value) =
         IF call.origin.ask = Absent THEN NoAsk ELSE ValueOf(call.origin.ask)

\* ask=Go?~ok;/y=1~no has been parsed: button 1 with its URL, button 2
\* without one.
C26_Witness ==
  /\ call.op = "parseServerBody"
  /\ call.output.threw = "none"
  /\ call.origin.ask # Absent
  /\ AskText(ValueOf(call.origin.ask)) =
       <<"G", "o", "?", "~", "o", "k", ";", "/", "y", "=", "1", "~", "n", "o">>
  /\ call.output.value.askMessage = Given(<<"G", "o", "?">>)
  /\ call.output.value.askButton1Url = Given(<<"/", "y", "=", "1">>)
  /\ call.output.value.askButton2Label = Given(<<"n", "o">>)
  /\ call.output.value.askButton2Url = Absent

\* The text of the client lines of a request, written out: ver, cmd, idk,
\* then pidk when a previous identity is presented, then opt when a flag is
\* set, every line ended by CRLF.
ExpectedClientText(c) ==
  LET flags == <<c.client.useSqrlIdentityOnly, c.client.hardLockSqrlUse,
                 c.client.clientProvidedSession, c.client.returnSessionUnlockKey>>
      names == <<<<"s", "q", "r", "l", "o", "n", "l", "y">>, <<"h", "a", "r", "d", "l", "o", "c", "k">>, <<"c", "p", "s">>, <<"s", "u", "k">>>>
      \* The names of the flags that are set, each after the first preceded
      \* by a tilde.
      token(i) == IF ~flags[i] THEN <<>>
                  ELSE IF \E j \in 1..(i - 1) : flags[j]
                       THEN <<"~">> \o names[i]
                       ELSE names[i]
      opt == token(1) \o token(2) \o token(3) \o token(4)
  IN <<"v", "e", "r", "=", "1">> \o CRLF \o <<"c", "m", "d", "=">> \o c.cmd \o CRLF
       \o <<"i", "d", "k", "=">> \o Base64UrlEncode(c.client.primaryIdentityPublicKey) \o CRLF
       \o (IF c.primaryIdentOnly \/ c.client.previousIdentityPublicKeys = <<>>
           THEN <<>>
           ELSE <<"p", "i", "d", "k", "=">> \o Base64UrlEncode(c.client.previousIdentityPublicKeys[1])
                  \o CRLF)
       \o (IF opt = <<>> THEN <<>> ELSE <<"o", "p", "t", "=">> \o opt \o CRLF)

\* C27: generating a client body and parsing it gives the same request: the
\* parsed ClientRequestInfo has the command and exactly the four flag values
\* of the client, and the client text is the lines ver, cmd, idk, optional
\* pidk, optional opt, joined by CRLF with a trailing CRLF.
C27_ClientBodyRoundTrip ==
  call.op = "parseBodyFields" =>
    LET c == call.origin
    IN /\ call.output.threw = "none"
       /\ call.output.value.sqrlCommand = c.cmd
       /\ call.output.value.useSqrlIdentityOnly = c.client.useSqrlIdentityOnly
       /\ call.output.value.hardLockSqrlUse = c.client.hardLockSqrlUse
       /\ call.output.value.clientProvidedSession = c.client.clientProvidedSession
       /\ call.output.value.returnSessionUnlockKey = c.client.returnSessionUnlockKey
       /\ Base64UrlDecode(call.input.client) = ExpectedClientText(c)

\* The body of a query of a client with one previous identity and all four
\* flags set has been generated and parsed.
C27_Witness ==
  /\ call.op = "parseBodyFields"
  /\ call.origin.cmd = <<"q", "u", "e", "r", "y">>
  /\ call.origin.client.previousIdentityPublicKeys # <<>>
  /\ ~call.origin.primaryIdentOnly
  /\ call.output.threw = "none"
  /\ call.output.value.sqrlCommand = <<"q", "u", "e", "r", "y">>
  /\ call.output.value.previousIdentityPublicKey # Absent
  /\ call.output.value.useSqrlIdentityOnly
  /\ call.output.value.hardLockSqrlUse
  /\ call.output.value.clientProvidedSession
  /\ call.output.value.returnSessionUnlockKey

\* C28: whenever a stored identity has a primary key equal to the request's
\* current key, the lookup of a query or an ident returns an identity stored
\* under that key with CurrentIDMatch alone, also when another stored
\* identity has a primary key equal to the request's previous key, and the
\* ident goes on without a rotation.
C28_CurrentKeyMatchPreferred ==
  [][\A p \in Procs :
       (/\ Free(p)
        /\ proc'[p].handler \in {"query", "ident"}
        /\ proc'[p] # proc[p]
        /\ proc'[p].clientRequestInfo.primaryIdentityPublicKey
             \in PrimaryKeys(userTable))
       => /\ proc'[p].authInfo.tifValues = CurrentIDMatch
          /\ proc'[p].authInfo.user.kind = "doc"
          /\ proc'[p].authInfo.user.doc \in userTable
          /\ proc'[p].authInfo.user.doc.sqrlPrimaryIdentityPublicKey
               = proc'[p].clientRequestInfo.primaryIdentityPublicKey
          /\ proc'[p].pc # "update"
          /\ userTable' = userTable]_vars

\* C29: whenever a poll takes the success branch for a nut (record present,
\* loggedIn = TRUE, client key set), an identity record whose primary key is
\* the nut's clientPrimaryIdentityPublicKey is stored, after any sequence of
\* ident requests, later rotations of that identity included; and a poll
\* that reports loggedIn reports it with a stored user record.
C29_PolledKeyNamesStoredIdentity ==
  \A p \in Procs :
     /\ (proc[p].handler = "poll" /\ proc[p].pc = "findUser") =>
          /\ proc[p].nutInfo \in nutTable
          /\ ~PollPending(proc[p].nutInfo)
          /\ proc[p].nutInfo.clientPrimaryIdentityPublicKey
               \in PrimaryKeys(userTable)
     /\ (proc[p].handler = "poll" /\ proc[p].pc = "done"
           /\ proc[p].pollResult.loggedIn) =>
          /\ proc[p].pollResult.user \in userTable
          /\ proc[p].pollResult.user.sqrlPrimaryIdentityPublicKey
               = proc[p].nutInfo.clientPrimaryIdentityPublicKey

\* The answer of a finished poll of nut, and the answer of lines 173-176.
PollReported(p, nut) ==
  /\ proc[p].handler = "poll" /\ proc[p].pc = "done"
  /\ proc[p].originalNutRecord.nut = nut

PollSucceeded(p, nut) ==
  /\ PollReported(p, nut)
  /\ proc[p].pollResult.statusCode = 200
  /\ proc[p].pollResult.loggedIn

\* C30: the poll results of a nut are monotonic: once a poll of the nut has
\* reported success, every later poll of the same nut reports success,
\* whatever ident requests and polls are served in between: a poll that
\* ends while an earlier poll of the nut stands answered with success
\* reports success too.
C30_PollSuccessIsStable ==
  [][\A p \in Procs, q \in Procs, nut \in Nuts :
       (/\ p # q
        /\ PollSucceeded(p, nut)
        /\ proc'[p] = proc[p]
        /\ proc'[q] # proc[q]
        /\ PollReported(q, nut)')
       => PollSucceeded(q, nut)']_vars

\* C31: when an ident creates an identity for a request that presents a
\* previous key (which then matches no stored identity), the previous-key
\* list of the new record is exactly that one key; when the request presents
\* no previous key, the list is empty.
C31_NewIdentityPreviousKeys ==
  [][\A p \in Procs :
       (proc[p].pc = "insert" /\ proc'[p] # proc[p]) =>
          LET req == proc[p].clientRequestInfo
              created == userTable' \ userTable
          IN /\ created # {}
             /\ req.previousIdentityPublicKey \notin PrimaryKeys(userTable)
             /\ \A d \in created :
                  /\ d.sqrlPrimaryIdentityPublicKey = req.primaryIdentityPublicKey
                  /\ d.sqrlPreviousIdentityPublicKeys =
                       IF req.previousIdentityPublicKey # NoKey
                       THEN <<req.previousIdentityPublicKey>>
                       ELSE <<>>]_vars

\* An ident has created, for a request presenting a previous key, an
\* identity that is stored with that key as its one previous key.
C31_Witness ==
  \E p \in Procs :
     /\ proc[p].handler = "ident" /\ proc[p].pc = "markNut"
     /\ proc[p].authInfo.tifValues = 0
     /\ proc[p].authInfo.user.kind = "doc"
     /\ proc[p].authInfo.user.doc \in userTable
     /\ proc[p].clientRequestInfo.previousIdentityPublicKey # NoKey
     /\ proc[p].authInfo.user.doc.sqrlPreviousIdentityPublicKeys
          = <<proc[p].clientRequestInfo.previousIdentityPublicKey>>

\* ed25519.Verify: the signature was made over the message with the private
\* key of the pair publicKey belongs to.
Ed25519Verify(message, signature, publicKey) ==
  /\ signature.message = message
  /\ \E seed \in {<<"A">>, <<"B">>, <<"C">>, <<"D">>} :
       MakeKeypair(seed) = [publicKey |-> publicKey, privateKey |-> signature.signer]

\* C32: on a client with n > 0 previous identities the k-th generatePostBody
\* call with primaryIdentOnly = false presents the previous key of index
\* (k - 1) mod n as pidk and signs pids with the private key of that index;
\* a call with primaryIdentOnly = true, or on a client without previous
\* identities, emits neither pidk nor pids and leaves the cursor unchanged.
C32_PreviousKeysPresentedCyclically ==
  (call.op = "generatePostBody" /\ call.origin.kind = "session") =>
    LET before == call.input.client
        after == call.origin.client
        n == Len(before.previousIdentityPublicKeys)
        k == call.origin.presented
        body == call.output.result
        text == Base64UrlDecode(body.client)
    IN IF ~call.input.primaryIdentOnly /\ n > 0
       THEN LET index == (k - 1) % n
            IN /\ after.lastQueryPrevIdTried = index
               /\ FindText(text,
                    CRLF \o <<"p", "i", "d", "k", "=">>
                      \o Base64UrlEncode(before.previousIdentityPublicKeys[index + 1])
                      \o CRLF) # 0
               /\ body.pids # Absent
               /\ ValueOf(body.pids).signer
                    = before.previousIdentityPrivateKeys[index + 1]
               /\ Ed25519Verify(body.client \o body.server, ValueOf(body.pids),
                                before.previousIdentityPublicKeys[index + 1])
       ELSE /\ FindText(text, <<"p", "i", "d", "k", "=">>) = 0
            /\ body.pids = Absent
            /\ after.lastQueryPrevIdTried = before.lastQueryPrevIdTried

\* A client with three previous identities has made its fourth call with
\* primaryIdentOnly = false and is back at its first previous identity.
C32_Witness ==
  /\ call.op = "generatePostBody" /\ call.origin.kind = "session"
  /\ Len(call.input.client.previousIdentityPublicKeys) = 3
  /\ ~call.input.primaryIdentOnly
  /\ call.origin.presented = 4
  /\ call.input.client.lastQueryPrevIdTried = 2
  /\ call.origin.client.lastQueryPrevIdTried = 0
  /\ call.output.result.pids # Absent

====
